---- MODULE Spec2Model ----
(***************************************************************************)
(* Model of the credential-gating reverse proxy of thesystem               *)
(* (src/src/keychain-agentauth.ts) together with the two keystore writers  *)
(* of the repository: `thesystem keys set` (src/src/cli.ts) and the        *)
(* biometric helper (src/swift/thesystem-keychain.swift).                  *)
(*                                                                         *)
(* Strings are sequences of tokens; a token is an indivisible piece of     *)
(* text.  Concatenation is \o, so "contains" is sub-sequence containment.  *)
(***************************************************************************)
EXTENDS Integers, Sequences, FiniteSets, TLC

\* ------------------------------------------------------------------------
\* Strings
\* ------------------------------------------------------------------------

\* Whitespace tokens, as removed by String.prototype.trim().
WS == {" ", "\n"}

RECURSIVE TrimLeft(_)
TrimLeft(s) == IF s # <<>> /\ Head(s) \in WS THEN TrimLeft(Tail(s)) ELSE s

RECURSIVE TrimRight(_)
TrimRight(s) ==
    IF s # <<>> /\ s[Len(s)] \in WS THEN TrimRight(SubSeq(s, 1, Len(s) - 1)) ELSE s

\* stdout.trim()
Trim(s) == TrimRight(TrimLeft(s))

\* String.prototype.startsWith
StartsWith(s, p) == Len(p) <= Len(s) /\ SubSeq(s, 1, Len(p)) = p

\* needle occurs in hay as a contiguous piece of text
Contains(hay, needle) ==
    \E i \in 1..(Len(hay) - Len(needle) + 1) :
        SubSeq(hay, i, i + Len(needle) - 1) = needle

\* ------------------------------------------------------------------------
\* IP allowlist
\* ------------------------------------------------------------------------

\* A textual address: "a.b.c.d" (form v4), "::ffff:a.b.c.d" (form mapped),
\* eight hexadecimal groups (form v6), or the literal 'unknown'.
V4(a, b, c, d)     == [form |-> "v4",      o |-> <<a, b, c, d>>, g |-> <<>>]
Mapped(a, b, c, d) == [form |-> "mapped",  o |-> <<a, b, c, d>>, g |-> <<>>]
V6(groups)         == [form |-> "v6",      o |-> <<>>,           g |-> groups]
UnknownIP          == [form |-> "unknown", o |-> <<>>,           g |-> <<>>]

V6Loopback == V6(<<0, 0, 0, 0, 0, 0, 0, 1>>)

ALLOWED_CIDRS == <<
    [ip |-> V4(127, 0, 0, 0),     prefix |-> 8],
    [ip |-> V6Loopback,           prefix |-> 128],
    [ip |-> Mapped(127, 0, 0, 0), prefix |-> 104],
    [ip |-> V4(10, 0, 0, 0),      prefix |-> 8],
    [ip |-> V4(192, 168, 0, 0),   prefix |-> 16],
    [ip |-> V4(172, 16, 0, 0),    prefix |-> 12] >>

\* n as `w` binary digits, most significant first
ToBits(n, w) == [i \in 1..w |-> (n \div (2 ^ (w - i))) % 2]

RECURSIVE ConcatBits(_, _)
ConcatBits(parts, w) ==
    IF parts = <<>> THEN <<>>
    ELSE ToBits(Head(parts), w) \o ConcatBits(Tail(parts), w)

\* parseInt(text, 16) of the decimal text of an octet: parsing stops at the
\* first '.', so "a.b.c.d" yields the digits of a read in base 16.
ParseIntHex(octet) ==
    IF octet >= 100 THEN (octet \div 100) * 256 + ((octet \div 10) % 10) * 16 + (octet % 10)
    ELSE IF octet >= 10 THEN (octet \div 10) * 16 + (octet % 10)
    ELSE octet

\* expandIPv6(ip).split(':') as numbers: the text right of "::ffff:" is ONE
\* part, so six zero groups are filled in front of ffff.
expandIPv6(ip) ==
    IF ip.form = "mapped" THEN <<0, 0, 0, 0, 0, 0, 65535, ParseIntHex(ip.o[1])>>
    ELSE ip.g

\* ipToBigInt: the value as a bit string (32 bits for v4, 128 for v6)
ipToBigInt(ip, isV6) ==
    IF isV6 THEN ConcatBits(expandIPv6(ip), 16) ELSE ConcatBits(ip.o, 8)

\* ip.includes(':')
IncludesColon(ip) == ip.form \in {"mapped", "v6"}

MaskBits(bits, prefix) == [i \in 1..bits |-> IF i <= prefix THEN 1 ELSE 0]

parseCIDR(cidr) ==
    LET isV6 == IncludesColon(cidr.ip)
        bits == IF isV6 THEN 128 ELSE 32
    IN  [addr |-> ipToBigInt(cidr.ip, isV6),
         mask |-> MaskBits(bits, cidr.prefix),
         bits |-> bits]

allowedRanges == [i \in DOMAIN ALLOWED_CIDRS |-> parseCIDR(ALLOWED_CIDRS[i])]

\* bitwise and of two bit strings of equal length
BitAnd(x, y) == [i \in DOMAIN x |-> x[i] * y[i]]

\* clientIP.replace(/^::ffff:/, '')
StripMapped(ip) == IF ip.form = "mapped" THEN V4(ip.o[1], ip.o[2], ip.o[3], ip.o[4]) ELSE ip

RangeMatches(clientIP, range) ==
    LET raw  == StripMapped(clientIP)
        isV4 == raw.form = "v4"
        isV6 == clientIP.form \in {"mapped", "v6"}
    IN  IF isV4 /\ range.bits = 32
        THEN BitAnd(ipToBigInt(raw, FALSE), range.mask) = BitAnd(range.addr, range.mask)
        ELSE IF (isV6 \/ clientIP.form = "mapped") /\ range.bits = 128
        THEN BitAnd(ipToBigInt(clientIP, TRUE), range.mask) = BitAnd(range.addr, range.mask)
        ELSE FALSE

isAllowedIP(clientIP) ==
    \E i \in DOMAIN allowedRanges : RangeMatches(clientIP, allowedRanges[i])

\* the address as it is printed in a log line
IPText(ip) ==
    IF ip.form = "unknown" THEN <<"unknown">>
    ELSE IF ip.form = "v6" THEN <<"v6addr">>
    ELSE (IF ip.form = "mapped" THEN <<"::ffff:">> ELSE <<>>) \o <<"v4addr">>

\* ------------------------------------------------------------------------
\* Provider registry
\* ------------------------------------------------------------------------

PROVIDERS == [
    anthropic |-> [upstream |-> <<"https://api.anthropic.com">>, authStyle |-> "x-api-key",
                   passthroughHeaders |-> <<"anthropic-version", "anthropic-beta">>],
    openai    |-> [upstream |-> <<"https://api.openai.com">>, authStyle |-> "bearer",
                   passthroughHeaders |-> <<>>],
    grok      |-> [upstream |-> <<"https://api.x.ai">>, authStyle |-> "bearer",
                   passthroughHeaders |-> <<>>],
    xai       |-> [upstream |-> <<"https://api.x.ai">>, authStyle |-> "bearer",
                   passthroughHeaders |-> <<>>],
    google    |-> [upstream |-> <<"https://generativelanguage.googleapis.com">>,
                   authStyle |-> "x-goog-api-key", passthroughHeaders |-> <<>>],
    mistral   |-> [upstream |-> <<"https://api.mistral.ai">>, authStyle |-> "bearer",
                   passthroughHeaders |-> <<>>],
    groq      |-> [upstream |-> <<"https://api.groq.com">>, authStyle |-> "bearer",
                   passthroughHeaders |-> <<>>],
    deepseek  |-> [upstream |-> <<"https://api.deepseek.com">>, authStyle |-> "bearer",
                   passthroughHeaders |-> <<>>] ]

\* Object.entries(PROVIDERS): definition order
ProviderOrder ==
    <<"anthropic", "openai", "grok", "xai", "google", "mistral", "groq", "deepseek">>

\* ------------------------------------------------------------------------
\* Values of the model
\* ------------------------------------------------------------------------

None == <<>>          \* no value: an absent header, an unset field, no stored item

\* Credentials the keystores may hold.  KMulti has a line break inside.
K1     == <<"sk-1">>
K2     == <<"sk-2">>
KMulti == <<"sk-3", "\n", "sk-4">>

\* values given to `thesystem keys set <provider> <key>`
PlainValues == {K1, K2}
\* values given to `thesystem-keychain set <service> <account> <value>`
BioValues == {K1, KMulti}
Secrets == PlainValues \cup BioValues

\* keystore accounts: three providers (one per auth style) and a git host
Accounts == {"anthropic", "openai", "google", "github"}

\* number of keystore writes in a run
MaxStoreOps == 1

\* request handlers that may be in flight together
Reqs == {"r1"}

ClientIPs == {V4(127, 0, 0, 1), V4(8, 8, 8, 8), Mapped(8, 8, 8, 8)}
Methods == {"GET", "POST"}

\* request targets (req.url), as path tokens
HealthPath    == <<"/", "agentauth", "/", "health">>
ProvidersPath == <<"/", "agentauth", "/", "providers">>
CredPrefix    == <<"/", "agentauth", "/", "credential", "/">>
Urls == {
    HealthPath, ProvidersPath,
    CredPrefix \o <<"github">>, CredPrefix \o <<"openai">>,
    <<"/", "anthropic", "/", "v1/messages">>,
    <<"/", "openai", "/", "v1/chat/completions">>,
    <<"/", "google", "/", "v1/models">>,
    <<"/", "openai", "x", "/", "v1/chat/completions">>,     \* /openaix/...
    <<"/", "OpenAI", "/", "v1/chat/completions">>,
    <<"/", "nope">> }

\* tokens matched by \w+
WordTokens == {"github"} \cup DOMAIN PROVIDERS

\* What the client sends in its own headers (names as Node lower-cases
\* them).  An unparsable Host value makes `new URL` throw.
BadHost == <<"[">>
ClientHeaderSets == {
    ("host" :> <<"proxy:9999">>),
    ("host" :> <<"evil.example">>) @@ ("authorization" :> <<"Bearer ", "client-auth">>)
        @@ ("x-api-key" :> <<"client-xkey">>) @@ ("x-goog-api-key" :> <<"client-gkey">>)
        @@ ("content-type" :> <<"application/json">>)
        @@ ("anthropic-version" :> <<"2024-01-01">>),
    ("host" :> BadHost) }

\* request bodies, as the chunks the socket delivers
Bodies == { <<>>, << <<"{", "model:m1">>, <<"}">> >> }

\* request bodies for the sanitizer: empty, JSON with a truthy and with a null
\* context_management, JSON without one (with white space), and not JSON
JsonBodies == {
    <<>>,
    << <<"{", "model:m1", " ", "context_management:{}">>, <<"messages:[]", "}">> >>,
    << <<"{", "context_management:null", " ", "messages:[]", "}">> >>,
    << <<"{", " ", "model:m1", "}">> >>,
    << <<"not json">> >> }
BodyMethods == {"GET", "HEAD", "POST"}
BodyUrls == { <<"/", "anthropic", "/", "v1/messages">>,
              <<"/", "openai", "/", "v1/chat/completions">> }

\* upstream answers
UpstreamStatuses == {"200", "500"}
UpstreamBodies == { <<>>, << <<"data: a">>, <<"data: b">> >> }

\* response headers an upstream may send, with the names as sent on the wire
UpstreamHeaderSets == {
    ("Content-Type" :> <<"text/event-stream">>) @@ ("Content-Encoding" :> <<"gzip">>)
        @@ ("Transfer-Encoding" :> <<"chunked">>) @@ ("X-Request-Id" :> <<"req-1">>) }

\* String.prototype.toLowerCase on the header names above
LowerCase ==
    ("Content-Type" :> "content-type") @@ ("Content-Encoding" :> "content-encoding")
    @@ ("Transfer-Encoding" :> "transfer-encoding") @@ ("X-Request-Id" :> "x-request-id")
toLowerCase(k) == IF k \in DOMAIN LowerCase THEN LowerCase[k] ELSE k

\* the Location of a 302 an upstream may answer with, on another origin
RedirectLocation == <<"https://elsewhere.example", "/moved">>

\* redirects answered by upstreams to one request in a run
MaxRedirects == 1

\* ------------------------------------------------------------------------
\* State
\* ------------------------------------------------------------------------

VARIABLES
    server,            \* the proxy process: "listening", or how it exited
    hasBiometricBin,   \* fs.existsSync(BIOMETRIC_BIN), fixed when the module loads
    plainStore,        \* macOS Keychain items read by `security`, per account
    bioStore,          \* Data Protection Keychain items of the helper, per account
    storeOps,          \* keystore writes so far
    lastSet,           \* per account: the key of the latest `keys set`, if any
    req,               \* per handler: the request context
    orch,              \* the orchestrator: one `thesystem start`, and the VM
    mk                 \* the marker pipeline: one text on its way through

vars == <<server, hasBiometricBin, plainStore, bioStore, storeOps, lastSet, req, orch, mk>>

NoResponse == [status |-> "", headers |-> <<>>, body |-> <<>>, ended |-> FALSE]

Idle == [
    pc |-> "idle", route |-> "", ip |-> UnknownIP, method |-> "", url |-> <<>>,
    headers |-> <<>>, pending |-> <<>>, chunks |-> <<>>, provider |-> "",
    upstreamPath |-> <<>>, body |-> <<>>, model |-> <<>>,
    reads |-> 0, setAtArrival |-> None, readDone |-> FALSE, apiKey |-> None, fetchErr |-> FALSE,
    bioOut |-> "-", bioHeld |-> None, plainOut |-> "-", plainHeld |-> None,
    up |-> <<>>, followed |-> <<>>, upOpen |-> FALSE, upHeaders |-> <<>>,
    upPending |-> <<>>, upGot |-> <<>>, clientGone |-> FALSE,
    res |-> NoResponse, log |-> <<>> ]

\* a header of a header set, None when absent (req.headers[name])
Hdr(h, name) == IF name \in DOMAIN h THEN h[name] ELSE None

Put(h, name, value) == [x \in (DOMAIN h) \cup {name} |-> IF x = name THEN value ELSE h[x]]

\* ------------------------------------------------------------------------
\* Logging
\* ------------------------------------------------------------------------

timestamp == <<"[ts] ">>

logRequest(clientIP, method, provider, path, model, status) ==
    [level |-> "log",
     text  |-> timestamp \o IPText(clientIP) \o <<" ", method, " /", provider>> \o path
               \o <<" model=">> \o model \o <<" status=", status, " ", "dur", "ms">>]

logDenied(clientIP, method, path) ==
    [level |-> "warn",
     text  |-> timestamp \o <<"DENIED ">> \o IPText(clientIP) \o <<" ", method, " ">> \o path]

logError(clientIP, method, path, err) ==
    [level |-> "error",
     text  |-> timestamp \o <<"ERROR ">> \o IPText(clientIP) \o <<" ", method, " ">> \o path
               \o <<" - ">> \o err]

\* console.log / console.warn of a route line
logRoute(level, clientIP, method, path, status) ==
    [level |-> level,
     text  |-> timestamp \o IPText(clientIP) \o <<" ", method, " ">> \o path
               \o (IF status = "" THEN <<>> ELSE <<" status=", status>>)]

\* ------------------------------------------------------------------------
\* Responses
\* ------------------------------------------------------------------------

\* res.writeHead(status, headers); res.end(body)
Respond(rq, status, headers, body) ==
    [rq EXCEPT !.res = [status |-> status, headers |-> headers, body |-> body,
                        ended |-> TRUE],
               !.pc = "done"]

TextPlain == ("content-type" :> <<"text/plain">>)
AppJson   == ("content-type" :> <<"application/json">>)

RECURSIVE JoinNames(_)
JoinNames(names) ==
    IF names = <<>> THEN <<>>
    ELSE <<Head(names)>> \o (IF Len(names) > 1 THEN <<",">> ELSE <<>>) \o JoinNames(Tail(names))

\* JSON.stringify({ status: 'ok', backends: Object.keys(PROVIDERS), port })
HealthJson == <<"{status:ok,backends:[">> \o JoinNames(ProviderOrder) \o <<"],port:", "port", "}">>
\* JSON.stringify(Object.keys(PROVIDERS))
ProvidersJson == <<"[">> \o JoinNames(ProviderOrder) \o <<"]">>
\* JSON.stringify({ token })
TokenJson(token) == <<"{token:">> \o token \o <<"}">>
\* JSON.stringify({ error: 'no_credential', message: `No key for ${provider} in Keychain` })
NoCredentialJson(provider) ==
    <<"{error:no_credential,message:No key for ", provider, " in Keychain}">>

\* ------------------------------------------------------------------------
\* Request bodies
\* ------------------------------------------------------------------------

RECURSIVE Concat(_)
\* Buffer.concat(chunks)
Concat(chunks) == IF chunks = <<>> THEN <<>> ELSE Head(chunks) \o Concat(Tail(chunks))

\* A JSON object text is "{", member tokens, "}", with white space allowed
\* between them.  Each member token is one `"key":value` pair.
JsonMembers == {"model:m1", "context_management:{}", "context_management:null",
                "messages:[]"}
JsonSpace == " "
MemberKey == ("model:m1" :> "model") @@ ("context_management:{}" :> "context_management")
             @@ ("context_management:null" :> "context_management")
             @@ ("messages:[]" :> "messages")
\* the member's value as a string, when it is a non-empty string
MemberText == ("model:m1" :> <<"m1">>) @@ ("context_management:{}" :> <<>>)
              @@ ("context_management:null" :> <<>>) @@ ("messages:[]" :> <<>>)

\* the member's value is truthy
MemberTruthy == ("model:m1" :> TRUE) @@ ("context_management:{}" :> TRUE)
                @@ ("context_management:null" :> FALSE) @@ ("messages:[]" :> TRUE)

\* JSON.parse succeeds
IsJsonObject(text) ==
    /\ Len(text) >= 2
    /\ text[1] = "{"
    /\ text[Len(text)] = "}"
    /\ \A i \in 2..(Len(text) - 1) : text[i] \in JsonMembers \cup {JsonSpace}

\* the parsed object has the key
HasKey(text, key) ==
    \E i \in DOMAIN text : text[i] \in JsonMembers /\ MemberKey[text[i]] = key

\* extractModel(body): json.model || '-'
extractModel(body) ==
    IF IsJsonObject(body) /\ HasKey(body, "model")
    THEN LET i == CHOOSE j \in DOMAIN body :
                      body[j] \in JsonMembers /\ MemberKey[body[j]] = "model"
         IN  IF MemberText[body[i]] # <<>> THEN MemberText[body[i]] ELSE <<"-">>
    ELSE <<"-">>

\* JSON.stringify of the parsed object: the members without white space
JsonStringify(text) == SelectSeq(text, LAMBDA t : t # JsonSpace)

RECURSIVE DropKey(_, _)
DropKey(text, key) ==
    IF text = <<>> THEN <<>>
    ELSE IF Head(text) \in JsonMembers /\ MemberKey[Head(text)] = key
         THEN DropKey(Tail(text), key)
         ELSE <<Head(text)>> \o DropKey(Tail(text), key)

\* the mutant of Sanitize for C30: the body is re-serialized whenever it parses
SanitizeReserialize(provider, body) ==
    IF provider = "anthropic" /\ Len(body) > 0 /\ IsJsonObject(body)
    THEN JsonStringify(DropKey(body, "context_management"))
    ELSE body

\* lines 224-233, the anthropic sanitizer: if json.context_management is
\* truthy, delete it and re-serialize
Sanitize(provider, body) ==
    IF provider = "anthropic" /\ Len(body) > 0 /\ IsJsonObject(body)
       /\ \E i \in DOMAIN body :
              /\ body[i] \in JsonMembers
              /\ MemberKey[body[i]] = "context_management"
              /\ MemberTruthy[body[i]]
    THEN JsonStringify(DropKey(body, "context_management"))
    ELSE body

\* ------------------------------------------------------------------------
\* Keystore reads (readKeyFromKeychain)
\* ------------------------------------------------------------------------

Held(store, account) == IF account \in Accounts THEN store[account] ELSE None

\* What a lookup process may answer: it may always fail (item not found,
\* keychain locked, authentication cancelled); when the item exists it may
\* print it.  `security ... -w` ends its output with a line break, the
\* helper prints the item as it is.
ExecOutcomes(store, account, lineBreak) ==
    {[ok |-> FALSE, stdout |-> <<>>]}
    \cup (IF Held(store, account) # None
          THEN {[ok |-> TRUE, stdout |-> Held(store, account) \o lineBreak]}
          ELSE {})

\* the mutant of BioStep for C32: whatever the helper prints on exit zero is
\* the key
BioStepTakesEmpty(out) ==
    IF out.ok
    THEN [ok |-> TRUE, key |-> Trim(out.stdout), err |-> <<>>]
    ELSE [ok |-> FALSE, key |-> None, err |-> <<>>]

\* lines 186-194: the helper's answer; a failure or an empty answer falls through
BioStep(out) ==
    IF out.ok /\ Trim(out.stdout) # <<>>
    THEN [ok |-> TRUE, key |-> Trim(out.stdout), err |-> <<>>]
    ELSE [ok |-> FALSE, key |-> None, err |-> <<>>]

\* the mutant of PlainStep for C8: a failed lookup is swallowed like the
\* helper's and yields an empty key
PlainStepSwallow(provider, out) ==
    IF out.ok THEN [ok |-> TRUE, key |-> Trim(out.stdout), err |-> <<>>]
    ELSE [ok |-> TRUE, key |-> <<>>, err |-> <<>>]

\* the mutant of PlainStep for C9: stdout is not trimmed
PlainStepNoTrim(provider, out) ==
    IF ~out.ok
    THEN [ok |-> FALSE, key |-> None,
          err |-> <<"Command failed: security find-generic-password -a ", provider,
                    " -s thesystem/", provider, " -w">>]
    ELSE [ok |-> TRUE, key |-> out.stdout, err |-> <<>>]

\* lines 197-200: exec rejects on a non-zero exit; an empty answer throws
PlainStep(provider, out) ==
    IF ~out.ok
    THEN [ok |-> FALSE, key |-> None,
          err |-> <<"Command failed: security find-generic-password -a ", provider,
                    " -s thesystem/", provider, " -w">>]
    ELSE IF Trim(out.stdout) = <<>>
    THEN [ok |-> FALSE, key |-> None, err |-> <<"Empty key for provider ", provider>>]
    ELSE [ok |-> TRUE, key |-> Trim(out.stdout), err |-> <<>>]

\* the call of readKeyFromKeychain up to its first await
StartRead(rq) ==
    [rq EXCEPT !.reads = @ + 1,
               !.pc = IF hasBiometricBin THEN "bio" ELSE "plain"]

\* ------------------------------------------------------------------------
\* Generic upstream forwarder (proxyRequest)
\* ------------------------------------------------------------------------

RECURSIVE Passthrough(_, _, _)
\* lines 253-256: copy each passthrough header the client supplied
Passthrough(headers, names, reqHeaders) ==
    IF names = <<>> THEN headers
    ELSE LET h == Head(names)
             val == Hdr(reqHeaders, h)
         IN  Passthrough(IF val # None THEN Put(headers, h, val) ELSE headers,
                         Tail(names), reqHeaders)

\* lines 238-245: the header that carries the key
AuthHeader(authStyle, apiKey) ==
    IF authStyle = "bearer" THEN ("Authorization" :> (<<"Bearer ">> \o apiKey))
    ELSE IF authStyle = "x-goog-api-key" THEN ("x-goog-api-key" :> apiKey)
    ELSE ("x-api-key" :> apiKey)

\* the mutant of FillHeaders for C31: the version is set whatever the client
\* supplied
FillHeadersFixedVersion(base, provider, config, reqHeaders) ==
    LET h1 == IF Hdr(reqHeaders, "content-type") # None
              THEN Put(base, "content-type", Hdr(reqHeaders, "content-type"))
              ELSE base
        h2 == Passthrough(h1, config.passthroughHeaders, reqHeaders)
    IN  IF provider = "anthropic"
        THEN Put(h2, "anthropic-version", <<"2023-06-01">>)
        ELSE h2

\* the rest of the header set, laid over `base`
FillHeaders(base, provider, config, reqHeaders) ==
    LET h1 == IF Hdr(reqHeaders, "content-type") # None
              THEN Put(base, "content-type", Hdr(reqHeaders, "content-type"))
              ELSE base
        h2 == Passthrough(h1, config.passthroughHeaders, reqHeaders)
    IN  IF provider = "anthropic" /\ Hdr(h2, "anthropic-version") = None
        THEN Put(h2, "anthropic-version", <<"2023-06-01">>)
        ELSE h2

\* the mutant of BuildHeaders for C6: the set starts from the client's headers
BuildHeadersFromClient(provider, config, apiKey, reqHeaders) ==
    FillHeaders(AuthHeader(config.authStyle, apiKey) @@ reqHeaders,
                provider, config, reqHeaders)

\* lines 238-260
BuildHeaders(provider, config, apiKey, reqHeaders) ==
    FillHeaders(AuthHeader(config.authStyle, apiKey), provider, config, reqHeaders)

\* fetch() refuses a header value with a line break inside (values are
\* stripped of surrounding whitespace first) and rejects with a TypeError
\* whose message quotes the value.
InvalidHeaderValue(v) == \E i \in DOMAIN Trim(v) : Trim(v)[i] = "\n"
InvalidHeaderMessage(v) ==
    <<"Headers.append: \"">> \o Trim(v) \o <<"\" is an invalid header value.">>

\* the mutant of BadGatewayBody for C5: the body is the error message
BadGatewayBodyMessage(err) == err

\* line 285: res.end('bad gateway')
BadGatewayBody(err) == <<"bad gateway">>

\* lines 281-285
Fail502(rq, err) ==
    LET message == IF err # <<>> THEN err ELSE <<"upstream fetch failed">>
        line == logError(rq.ip, rq.method, <<"/", rq.provider>> \o rq.upstreamPath, message)
        headersSent == rq.res.status # ""
    IN  [rq EXCEPT
           !.log = Append(@, line),
           !.res = [status  |-> IF headersSent THEN @.status ELSE "502",
                    headers |-> IF headersSent THEN @.headers ELSE TextPlain,
                    body    |-> @.body \o BadGatewayBody(message),
                    ended   |-> TRUE],
           !.upPending = <<>>,
           !.upOpen = FALSE,
           !.pc = "done"]

\* the mutant of ProxyCatch for C3: a failed keystore read is tried again
ProxyCatchRetry(rq, err) ==
    IF ~rq.readDone /\ rq.reads < 2 THEN StartRead(rq) ELSE Fail502(rq, err)

\* the mutant of ProxyCatch for C10: the failure is logged and the response
\* ended without a status line of its own
ProxyCatchNoStatus(rq, err) ==
    [Fail502(rq, err) EXCEPT !.res.status = rq.res.status]

\* the mutant of ProxyCatch for C36: the failure is answered like one of the
\* request listener, 500 with the message as body
ProxyCatchMessage500(rq, err) ==
    [Fail502(rq, err) EXCEPT !.res.status = "500", !.res.body = err]

\* lines 280-286: the catch block of the 'end' handler
ProxyCatch(rq, err) == Fail502(rq, err)

\* lines 238-266: build the headers and call fetch
Forward(rq, apiKey) ==
    LET config  == PROVIDERS[rq.provider]
        headers == BuildHeaders(rq.provider, config, apiKey, rq.headers)
        bad     == {n \in DOMAIN headers : InvalidHeaderValue(headers[n])}
        rq1     == [rq EXCEPT !.apiKey = apiKey, !.readDone = TRUE]
        noBody  == rq.method \in {"GET", "HEAD"}
    IN  IF bad # {}
        THEN ProxyCatch([rq1 EXCEPT !.fetchErr = TRUE],
                        InvalidHeaderMessage(headers[CHOOSE n \in bad : TRUE]))
        ELSE [rq1 EXCEPT
                !.up = Append(@, [url     |-> config.upstream \o rq.upstreamPath,
                                  method  |-> rq.method,
                                  headers |-> headers,
                                  hasBody |-> ~noBody,
                                  body    |-> IF noBody THEN <<>> ELSE rq.body]),
                !.upOpen = TRUE,
                !.pc = "fetch"]

\* line 262: fetch is called without a `redirect` option, so it follows a 3xx
\* that carries a Location.  On 302 a POST is repeated as a GET without its
\* body and content-type; on another origin the Authorization header is
\* dropped, every other header is sent again.
FollowRedirect(request, location) ==
    LET toGet   == request.method = "POST"
        dropped == {"Authorization"} \cup (IF toGet THEN {"content-type"} ELSE {})
    IN  [url     |-> location,
         method  |-> IF toGet THEN "GET" ELSE request.method,
         headers |-> [n \in (DOMAIN request.headers) \ dropped |-> request.headers[n]],
         hasBody |-> request.hasBody /\ ~toGet,
         body    |-> IF toGet THEN <<>> ELSE request.body]

\* the request fetch has in flight
LastRequest(rq) ==
    IF rq.followed = <<>> THEN rq.up[Len(rq.up)] ELSE rq.followed[Len(rq.followed)]

\* line 269: resp.headers.entries() yields the names in lower case
HeadersEntries(wire) ==
    [n \in {toLowerCase(k) : k \in DOMAIN wire} |->
        wire[CHOOSE k \in DOMAIN wire : toLowerCase(k) = n]]

\* the mutant of FwdHeaders for C17: every upstream header is forwarded
FwdHeadersAll(headers) == headers

\* lines 268-272
FwdHeaders(headers) ==
    [n \in {k \in DOMAIN headers :
                toLowerCase(k) \notin {"content-encoding", "transfer-encoding"}}
        |-> headers[n]]

\* the mutant of PipeData for C13: chunks are held back until the upstream ends
PipeDataBuffered(rq) ==
    LET got == Append(rq.upGot, Head(rq.upPending))
    IN  [rq EXCEPT !.res.body = IF Tail(rq.upPending) = <<>> THEN Concat(got) ELSE @,
                   !.upGot = got,
                   !.upPending = Tail(@)]

\* line 275: the pipe's 'data' listener writes the chunk to the response
PipeData(rq) ==
    [rq EXCEPT !.res.body = @ \o Head(rq.upPending),
               !.upGot = Append(@, Head(rq.upPending)),
               !.upPending = Tail(@)]

\* ------------------------------------------------------------------------
\* HTTP server: the request listener up to its first await
\* ------------------------------------------------------------------------

\* url.pathname.match(/^\/agentauth\/credential\/(\w+)$/)
credMatch(pathname) ==
    /\ Len(pathname) = Len(CredPrefix) + 1
    /\ StartsWith(pathname, CredPrefix)
    /\ pathname[Len(pathname)] \in WordTokens

\* the mutant of PrefixMatches for C20: the prefix is not anchored by a slash
PrefixMatchesLoose(pathname, name) == StartsWith(pathname, <<"/", name>>)

\* lines 359-366: the registry entries whose prefix test succeeds
PrefixMatches(pathname, name) ==
    pathname = <<"/", name>> \/ StartsWith(pathname, <<"/", name, "/">>)

MatchIndex(pathname) ==
    IF \E i \in DOMAIN ProviderOrder : PrefixMatches(pathname, ProviderOrder[i])
    THEN CHOOSE i \in DOMAIN ProviderOrder :
            /\ PrefixMatches(pathname, ProviderOrder[i])
            /\ \A j \in 1..(i - 1) : ~PrefixMatches(pathname, ProviderOrder[j])
    ELSE 0

\* new URL(req.url, `http://${req.headers.host || 'localhost'}`) throws
URLThrows(rq) == Hdr(rq.headers, "host") = BadHost

\* lines 316-321
Deny(rq) ==
    Respond([rq EXCEPT !.route = "denied",
                       !.log = Append(@, logDenied(rq.ip, rq.method, rq.url))],
            "403", TextPlain, <<"forbidden">>)

\* lines 371-378
InternalError(rq, msg) ==
    Respond([rq EXCEPT !.route = "error",
                       !.log = Append(@, logError(rq.ip, rq.method, rq.url, msg))],
            "500", TextPlain, msg)

\* lines 312-378, run on the 'request' event until the handler returns or awaits
Handler(rq) ==
    IF ~isAllowedIP(rq.ip) THEN Deny(rq)
    ELSE IF URLThrows(rq) THEN InternalError(rq, <<"Invalid URL">>)
    ELSE IF rq.url = HealthPath
    THEN Respond([rq EXCEPT !.route = "health",
                            !.log = Append(@, logRoute("log", rq.ip, "GET", HealthPath, ""))],
                 "200", AppJson, HealthJson)
    ELSE IF rq.url = ProvidersPath
    THEN Respond([rq EXCEPT !.route = "providers"], "200", AppJson, ProvidersJson)
    ELSE IF credMatch(rq.url)
    THEN StartRead([rq EXCEPT !.route = "cred", !.provider = rq.url[Len(rq.url)]])
    ELSE IF MatchIndex(rq.url) # 0
    THEN LET name == ProviderOrder[MatchIndex(rq.url)]
             rest == SubSeq(rq.url, 3, Len(rq.url))
         IN  [rq EXCEPT !.route = "proxy", !.provider = name,
                        !.upstreamPath = IF rest = <<>> THEN <<"/">> ELSE rest,
                        !.pc = "body"]
    ELSE Respond([rq EXCEPT !.route = "notfound",
                            !.log = Append(@, logRoute("warn", rq.ip, rq.method, rq.url, "404"))],
                 "404", TextPlain, <<"not found">>)

\* lines 346-349
CredOk(rq, token) ==
    Respond([rq EXCEPT
               !.apiKey = token, !.readDone = TRUE,
               !.log = Append(@, logRoute("log", rq.ip, "GET", CredPrefix \o <<rq.provider>>, "200"))],
            "200", AppJson, TokenJson(token))

\* lines 350-354
CredMiss(rq) ==
    Respond([rq EXCEPT
               !.log = Append(@, logRoute("warn", rq.ip, "GET", CredPrefix \o <<rq.provider>>, "404"))],
            "404", AppJson, NoCredentialJson(rq.provider))

\* what follows `await readKeyFromKeychain(provider)`
AfterRead(rq, result) ==
    IF rq.route = "cred"
    THEN IF result.ok THEN CredOk(rq, result.key) ELSE CredMiss(rq)
    ELSE IF result.ok THEN Forward(rq, result.key) ELSE ProxyCatch(rq, result.err)

\* ------------------------------------------------------------------------
\* Orchestrator (src/src/orchestrator.ts)
\* ------------------------------------------------------------------------

\* Names of environment variables, as the prefix the forwarding pattern
\* looks at and the rest of the name.
EnvAnthropicKey  == <<"ANTHROPIC_", "API_KEY">>
EnvOpenaiKey     == <<"OPENAI_", "API_KEY">>
EnvClaudeToken   == <<"CLAUDE_CODE_", "OAUTH_TOKEN">>
EnvGithubToken   == <<"GITHUB_", "TOKEN">>
EnvGithubBearer  == <<"GITHUB_", "TOKEN_BEARER">>
EnvAnthropicModel == <<"ANTHROPIC_", "MODEL">>
EnvSystemNote    == <<"THESYSTEM_", "NOTE">>
EnvAgentauthPort == <<"AGENTAUTH_", "PORT">>
EnvHome          == <<"HOME">>

\* lines 12-19
SECRET_ENV_VARS ==
    {EnvAnthropicKey, EnvOpenaiKey, EnvClaudeToken, EnvGithubToken, EnvGithubBearer}

\* line 22
AGENTAUTH_PORT == <<"9999">>

\* line 38: /^(ANTHROPIC_|THESYSTEM_|AGENTCHAT_|CLAUDE_CODE_)/.test(k)
envForwardRegex(k) ==
    k # <<>> /\ Head(k) \in {"ANTHROPIC_", "THESYSTEM_", "AGENTCHAT_", "CLAUDE_CODE_"}

\* process.env of the host, in insertion order: without and with secrets
HostEnvs == {
    << [k |-> EnvHome, v |-> <<"/Users/me">>] >>,
    << [k |-> EnvHome, v |-> <<"/Users/me">>],
       [k |-> EnvAnthropicKey, v |-> <<"sk-ant-host">>],
       [k |-> EnvAnthropicModel, v |-> <<"opus">>],
       [k |-> EnvOpenaiKey, v |-> <<"sk-oai-host">>],
       [k |-> EnvClaudeToken, v |-> <<"oauth-host">>],
       [k |-> EnvSystemNote, v |-> <<"it", "'", "s">>],
       [k |-> EnvGithubToken, v |-> <<"ghp-host">>],
       [k |-> EnvGithubBearer, v |-> <<"ghb-host">>],
       [k |-> EnvAgentauthPort, v |-> <<"9998">>] >> }

\* process.env[k]
GetEnv(env, k) ==
    IF \E i \in DOMAIN env : env[i].k = k
    THEN env[CHOOSE i \in DOMAIN env : env[i].k = k].v
    ELSE None

RECURSIVE ShellEscape(_)
\* line 41: (v || '').replace(/'/g, "'\\''")
ShellEscape(v) ==
    IF v = <<>> THEN <<>>
    ELSE (IF Head(v) = "'" THEN <<"'\\''">> ELSE <<Head(v)>>) \o ShellEscape(Tail(v))

\* the mutant of ForwardedEnv for C24: the secret names are not filtered out
ForwardedEnvAll(env) == SelectSeq(env, LAMBDA e : envForwardRegex(e.k))

\* lines 39-40: the entries that are forwarded
ForwardedEnv(env) ==
    SelectSeq(env, LAMBDA e : envForwardRegex(e.k) /\ e.k \notin SECRET_ENV_VARS)

\* lines 39-42: one `export K='v'` line per forwarded entry
envExports(env) ==
    LET fwd == ForwardedEnv(env)
    IN  [i \in DOMAIN fwd |-> [name |-> fwd[i].k, value |-> ShellEscape(fwd[i].v)]]

\* lines 45-51
proxyExports(env) ==
    LET port == GetEnv(env, EnvAgentauthPort)
        proxyPort == IF port # None THEN port ELSE AGENTAUTH_PORT
    IN  << [name  |-> <<"ANTHROPIC_", "BASE_URL">>,
            value |-> <<"http://host.lima.internal:">> \o proxyPort \o <<"/anthropic">>],
           [name  |-> EnvAnthropicKey, value |-> <<"proxy-managed">>],
           [name  |-> <<"OPENAI_", "BASE_URL">>,
            value |-> <<"http://host.lima.internal:">> \o proxyPort \o <<"/openai">>],
           [name  |-> EnvOpenaiKey, value |-> <<"proxy-managed">>] >>

\* line 53: the script written into the VM
Script(env, command) ==
    [exports |-> envExports(env) \o proxyExports(env), command |-> command]

Configs == [mode : {"server", "client"}, agents : {0, 2}]

\* vm is the state of the VM itself; the rest is what one `thesystem` process
\* has seen and done: the state it observed, the limactl commands it issued
\* (vmOps), the scripts it wrote into the VM, the kills stop() attempted.
OrchIdle(vm) ==
    [pc |-> "idle", vm |-> vm, env |-> <<>>, config |-> [mode |-> "", agents |-> 0],
     run |-> "-", observed |-> "-", vmStep |-> "-",
     scripts |-> <<>>, vmOps |-> <<>>, serverPort |-> "-", dashPort |-> "-",
     health |-> "-", stops |-> <<>>]

\* lines 72-85, isVmRunning: what it may return; a failing `limactl list` is
\* caught and gives false
isVmRunning(vm) == {vm = "running", FALSE}

\* lines 87-99, isVmCreated: likewise
isVmCreated(vm) == {vm # "absent", FALSE}

\* the mutant of VmAction for C39: a running VM is started again
VmActionRestart(running, created) == IF created \/ running THEN "vmstart" ELSE "vmcreate"

\* lines 148-161, start(): the step that follows the two observations
VmAction(running, created) ==
    IF running THEN "install" ELSE IF created THEN "vmstart" ELSE "vmcreate"

\* the mutant of stopPatterns for C33: the kills in boot order
stopPatternsBootOrder == <<"agentchat-server", "agentdash", "agentctl-swarm">>

\* lines 356-360, stopPatterns
stopPatterns == <<"agentctl-swarm", "agentdash", "agentchat-server">>

\* lines 32-71, shell(command): the script is written into the VM and run
Shell(o, command) == [o EXCEPT !.scripts = Append(@, Script(o.env, command))]

\* ------------------------------------------------------------------------
\* Marker pipeline (src/src/markers.ts)
\* ------------------------------------------------------------------------

\* Text is a sequence of characters. "@@" is two "@" in a row.
HasAtAt(s) == \E i \in 1..(Len(s) - 1) : s[i] = "@" /\ s[i + 1] = "@"

\* the first index >= from where "@@" starts, 0 when there is none
FindAtAt(s, from) ==
    LET found == {i \in from..(Len(s) - 1) : s[i] = "@" /\ s[i + 1] = "@"}
    IN  IF found = {} THEN 0 ELSE CHOOSE i \in found : \A j \in found : i <= j

\* String.prototype.indexOf, counted from 1; 0 when absent
IndexOf(s, c) ==
    LET found == {i \in 1..Len(s) : s[i] = c}
    IN  IF found = {} THEN 0 ELSE CHOOSE i \in found : \A j \in found : i <= j

\* String.prototype.split on a one-character separator
RECURSIVE Split(_, _)
Split(s, sep) ==
    LET p == IndexOf(s, sep)
    IN  IF p = 0 THEN <<s>>
        ELSE <<SubSeq(s, 1, p - 1)>> \o Split(SubSeq(s, p + 1, Len(s)), sep)

\* line 82, MARKER_RE = /@@([\s\S]*?)@@/g, one exec from index `from`: the
\* leftmost "@@" and, lazily, the nearest "@@" that closes it. index = 0 when
\* nothing matches.
MARKER_RE(s, from) ==
    LET i == FindAtAt(s, from)
        j == IF i = 0 THEN 0 ELSE FindAtAt(s, i + 2)
    IN  IF j = 0 THEN [index |-> 0, last |-> 0, content |-> <<>>]
        ELSE [index |-> i, last |-> j + 1, content |-> SubSeq(s, i + 2, j - 1)]

\* \w and \d over the characters of the model
WordChars == {"a", "b", "1"}
Digits == {"1"}

\* (\w[\w-]*) matching the whole of s
IsName(s) ==
    /\ s # <<>>
    /\ s[1] \in WordChars
    /\ \A i \in 2..Len(s) : s[i] \in WordChars \cup {"-"}

\* line 97, CLOSE_RE = /^\/([\w][\w-]*)$/
CLOSE_RE(t) == t # <<>> /\ t[1] = "/" /\ IsName(Tail(t))

\* line 87, FN_CALL_RE = /^(\w[\w-]*)\(([^)]*)\)$/
FN_CALL_RE(t) ==
    LET p == IndexOf(t, "(")
    IN  /\ p > 1
        /\ IsName(SubSeq(t, 1, p - 1))
        /\ t[Len(t)] = ")"
        /\ \A i \in (p + 1)..(Len(t) - 1) : t[i] # ")"

\* line 92, KV_RE = /^(\w[\w-]*):(-?\d+(?:\.\d+)?)/
KV_RE(t) ==
    LET p == IndexOf(t, ":")
        rest == SubSeq(t, p + 1, Len(t))
    IN  /\ p > 1
        /\ IsName(SubSeq(t, 1, p - 1))
        /\ rest # <<>>
        /\ \/ rest[1] \in Digits
           \/ rest[1] = "-" /\ Len(rest) >= 2 /\ rest[2] \in Digits

\* line 102, SIMPLE_RE = /^(\w[\w-]*)$/
SIMPLE_RE(t) == IsName(t)

\* line 128, replace(/^["']|["']$/g, '')
Unquote(s) ==
    LET quotes == {"'", "\""}
        a == IF s # <<>> /\ s[1] \in quotes THEN 2 ELSE 1
        b == IF Len(s) >= a /\ s[Len(s)] \in quotes THEN Len(s) - 1 ELSE Len(s)
    IN  SubSeq(s, a, b)

\* a Record built by assigning the pairs in order: the last value of a key wins
RecordOf(pairs) ==
    [key \in {pairs[i].k : i \in DOMAIN pairs} |->
        LET at == {i \in DOMAIN pairs : pairs[i].k = key}
        IN  pairs[CHOOSE i \in at : \A j \in at : j <= i].v]

\* lines 122-132: the args of a function call
FnArgs(argsStr) ==
    IF Trim(argsStr) = <<>> THEN RecordOf(<<>>)
    ELSE LET parts == SelectSeq(Split(argsStr, ","), LAMBDA pair : IndexOf(pair, "=") > 1)
         IN  RecordOf([i \in DOMAIN parts |->
                 LET eqIdx == IndexOf(parts[i], "=")
                 IN  [k |-> Trim(SubSeq(parts[i], 1, eqIdx - 1)),
                      v |-> Unquote(Trim(SubSeq(parts[i], eqIdx + 1, Len(parts[i]))))]])

\* the value of a run of decimal digits
RECURSIVE DigitsValue(_)
DigitsValue(d) ==
    IF d = <<>> THEN 0 ELSE 10 * DigitsValue(SubSeq(d, 1, Len(d) - 1)) + 1

\* parseFloat over the characters of the model: leading whitespace, a sign,
\* then the longest run of digits; NaN when there is no digit
parseFloat(s) ==
    LET t == TrimLeft(s)
        neg == t # <<>> /\ t[1] = "-"
        u == IF neg THEN Tail(t) ELSE t
        stop == {i \in 1..Len(u) : u[i] \notin Digits}
        n == IF stop = {} THEN Len(u) ELSE (CHOOSE i \in stop : \A j \in stop : i <= j) - 1
    IN  IF n = 0 THEN [nan |-> TRUE, value |-> 0]
        ELSE [nan |-> FALSE,
              value |-> IF neg THEN 0 - DigitsValue(SubSeq(u, 1, n))
                        ELSE DigitsValue(SubSeq(u, 1, n))]

\* lines 138-148: the pairs of a key-value marker
KvPairs(trimmed) ==
    LET parts == SelectSeq(Split(trimmed, ","),
                     LAMBDA part :
                        /\ IndexOf(part, ":") > 1
                        /\ ~parseFloat(SubSeq(part, IndexOf(part, ":") + 1, Len(part))).nan)
    IN  RecordOf([i \in DOMAIN parts |->
            LET colonIdx == IndexOf(parts[i], ":")
            IN  [k |-> Trim(SubSeq(parts[i], 1, colonIdx - 1)),
                 v |-> parseFloat(SubSeq(parts[i], colonIdx + 1, Len(parts[i]))).value]])

\* lines 107-161, parseMarkerContent(content, raw); type "null" is the null
\* it returns for content it does not recognise
parseMarkerContent(content, raw) ==
    LET trimmed == Trim(content)
        paren == IndexOf(trimmed, "(")
    IN  IF trimmed = <<>> THEN [type |-> "null"]
        ELSE IF CLOSE_RE(trimmed)
             THEN [type |-> "marker_end", name |-> Tail(trimmed), raw |-> raw]
        ELSE IF FN_CALL_RE(trimmed)
             THEN [type |-> "fn_call", name |-> SubSeq(trimmed, 1, paren - 1),
                   args |-> FnArgs(SubSeq(trimmed, paren + 1, Len(trimmed) - 1)),
                   raw |-> raw]
        ELSE IF KV_RE(trimmed) /\ DOMAIN KvPairs(trimmed) # {}
             THEN [type |-> "kv", pairs |-> KvPairs(trimmed), raw |-> raw]
        ELSE IF SIMPLE_RE(trimmed)
             THEN [type |-> "marker", name |-> trimmed, raw |-> raw]
        ELSE [type |-> "null"]

\* the mutant of KeepAsText for C38: the span is kept without its delimiters
KeepContentAsText(match, raw) == [type |-> "text", content |-> match.content]

\* lines 185-188: a span of unrecognised format is kept as text, match[0]
KeepAsText(match, raw) == [type |-> "text", content |-> raw]

\* lines 176-196: the loop of parse from lastIndex on
RECURSIVE ParseFrom(_, _)
ParseFrom(text, lastIndex) ==
    LET match == MARKER_RE(text, lastIndex)
        raw == SubSeq(text, match.index, match.last)
        marker == parseMarkerContent(match.content, raw)
        before == IF match.index > lastIndex
                  THEN <<[type |-> "text", content |-> SubSeq(text, lastIndex, match.index - 1)]>>
                  ELSE <<>>
    IN  IF match.index = 0
        THEN IF lastIndex <= Len(text)
             THEN <<[type |-> "text", content |-> SubSeq(text, lastIndex, Len(text))]>>
             ELSE <<>>
        ELSE before
             \o <<IF marker.type # "null" THEN marker ELSE KeepAsText(match, raw)>>
             \o ParseFrom(text, match.last + 1)

\* lines 169-199, parse(text)
parse(text) == ParseFrom(text, 1)

\* lines 204-206, extractMarkers(text)
extractMarkers(text) == SelectSeq(parse(text), LAMBDA seg : seg.type # "text")

\* text.replace(MARKER_RE, ''), from index `from` on
RECURSIVE ReplaceMarkers(_, _)
ReplaceMarkers(s, from) ==
    LET match == MARKER_RE(s, from)
    IN  IF match.index = 0 THEN SubSeq(s, from, Len(s))
        ELSE SubSeq(s, from, match.index - 1) \o ReplaceMarkers(s, match.last + 1)

\* /@@[^@]*@@/ tried at index i: the index of its last character, 0 when it
\* does not match there
OrphanEnd(s, i) ==
    LET ats == {k \in (i + 2)..Len(s) : s[k] = "@"}
        k == CHOOSE a \in ats : \A b \in ats : a <= b
    IN  IF /\ i + 1 <= Len(s) /\ s[i] = "@" /\ s[i + 1] = "@"
           /\ ats # {}
           /\ k + 1 <= Len(s) /\ s[k + 1] = "@"
        THEN k + 1 ELSE 0

\* line 223, replace(/@@[^@]*@@/g, '')
RECURSIVE ReplaceOrphans(_, _)
ReplaceOrphans(s, i) ==
    IF i > Len(s) THEN <<>>
    ELSE IF OrphanEnd(s, i) # 0 THEN ReplaceOrphans(s, OrphanEnd(s, i) + 1)
    ELSE <<s[i]>> \o ReplaceOrphans(s, i + 1)

\* line 225, replace(/@@/g, '')
RECURSIVE ReplacePairs(_, _)
ReplacePairs(s, i) ==
    IF i > Len(s) THEN <<>>
    ELSE IF i + 1 <= Len(s) /\ s[i] = "@" /\ s[i + 1] = "@" THEN ReplacePairs(s, i + 2)
    ELSE <<s[i]>> \o ReplacePairs(s, i + 1)

\* line 227, replace(/\s{2,}/g, ' ')
RECURSIVE CollapseSpace(_, _)
CollapseSpace(s, i) ==
    IF i > Len(s) THEN <<>>
    ELSE IF i + 1 <= Len(s) /\ s[i] \in WS /\ s[i + 1] \in WS
         THEN LET ends == {k \in i..Len(s) : \A j \in i..k : s[j] \in WS}
                  last == CHOOSE k \in ends : \A j \in ends : j <= k
              IN  <<" ">> \o CollapseSpace(s, last + 1)
    ELSE <<s[i]>> \o CollapseSpace(s, i + 1)

\* the mutant of strip for C25: passes 1 to 3 only
stripWellFormedOnly(text) ==
    Trim(CollapseSpace(
        ReplaceOrphans(ReplaceMarkers(ReplaceMarkers(text, 1), 1), 1), 1))

\* lines 217-228, strip(text)
strip(text) ==
    Trim(CollapseSpace(
        ReplacePairs(ReplaceOrphans(ReplaceMarkers(ReplaceMarkers(text, 1), 1), 1), 1), 1))

\* lines 233-238, textOnly(segments)
textOnly(segments) ==
    Concat([i \in DOMAIN segments |->
               IF segments[i].type = "text" THEN segments[i].content ELSE <<>>])

\* MarkerRouter: names that handlers are registered under, and the handlers:
\* one that returns and one that throws
HandlerNames == {<<"a">>}
Wildcard == <<"*">>
Handlers == {"returns", "throws"}

\* lines 250-251: a new MarkerRouter. A name without handlers has no entry in
\* the Map; the empty list stands for that, as on() never stores one.
NewRouter == [handlers |-> [n \in HandlerNames |-> <<>>], wildcardHandlers |-> <<>>]

\* lines 259-268, on(name, handler)
on(router, name, handler) ==
    IF name = Wildcard
    THEN [router EXCEPT !.wildcardHandlers = Append(@, handler)]
    ELSE [router EXCEPT !.handlers[name] = Append(@, handler)]

\* lines 273-281, off(name?): None is the call without a name
off(router, name) ==
    IF name # None
    THEN [router EXCEPT !.handlers =
             [n \in HandlerNames |-> IF n = name THEN <<>> ELSE router.handlers[n]]]
    ELSE NewRouter

\* lines 293-318: the handlers route() calls for a marker, in the order it
\* calls them: those registered under its name, then the wildcard ones
Applicable(router, marker) ==
    LET named == IF marker.type # "kv" /\ marker.name \in HandlerNames
                 THEN router.handlers[marker.name] ELSE <<>>
    IN  [i \in DOMAIN named |-> [list |-> "named", handler |-> named[i]]]
        \o [i \in DOMAIN router.wildcardHandlers |->
               [list |-> "wildcard", handler |-> router.wildcardHandlers[i]]]

\* the mutant of Routable for C26: key-value markers are left out
RoutableNamedOnly(segments) ==
    SelectSeq(segments, LAMBDA seg : seg.type \notin {"text", "kv"})

\* line 331: the markers process() routes
Routable(segments) == SelectSeq(segments, LAMBDA seg : seg.type # "text")

\* The pipeline between calls: the router and no text in work. lastOff holds
\* the argument of off() while off() is the last call made on the router.
MkRouter(router) ==
    [pc |-> "idle", router |-> router, text |-> <<>>, segments |-> <<>>,
     markers |-> <<>>, routed |-> <<>>, h |-> 0, handled |-> FALSE,
     calls |-> <<>>, logged |-> 0, out |-> <<>>, lastOff |-> <<>>]

MkIdle == MkRouter(NewRouter)

\* route() returns once the last applicable handler has been called
RouteLoop(m) ==
    IF m.h > Len(Applicable(m.router, m.routed[Len(m.routed)]))
    THEN [m EXCEPT !.pc = "routing"] ELSE m

\* lines 305, 317: handled = true, and on to the next handler
NextHandler(m) == RouteLoop([m EXCEPT !.h = @ + 1, !.handled = TRUE])

\* the mutant of CatchHandlerError for C27: the error leaves route()
RethrowHandlerError(m) == [m EXCEPT !.pc = "rejected"]

\* lines 302-304, 314-316: the catch block logs the error
CatchHandlerError(m) == NextHandler([m EXCEPT !.logged = @ + 1])

\* ------------------------------------------------------------------------
\* Initial state
\* ------------------------------------------------------------------------

\* The proxy has just started listening.  Two provider keys were stored with
\* `thesystem keys set`; the helper binary may or may not have been built,
\* and the anthropic key may or may not have been stored with it as well.
Init ==
    /\ server = "listening"
    /\ hasBiometricBin \in BOOLEAN
    /\ plainStore = [a \in Accounts |-> IF a \in {"anthropic", "openai"} THEN K1 ELSE None]
    /\ bioStore \in {[a \in Accounts |-> None],
                     [a \in Accounts |-> IF a = "anthropic" THEN K1 ELSE None]}
    /\ storeOps = 0
    /\ lastSet = [a \in Accounts |-> None]
    /\ req = [r \in Reqs |-> Idle]
    /\ orch = OrchIdle("absent")
    /\ mk = MkIdle

\* ------------------------------------------------------------------------
\* Actions
\* ------------------------------------------------------------------------

\* the 'request' event: the listener runs up to its first await
Request(r, ip, method, url, headers, body) ==
    /\ server = "listening"
    /\ req[r].pc = "idle"
    /\ LET rq == Handler([Idle EXCEPT !.ip = ip, !.method = method, !.url = url,
                                      !.headers = headers, !.pending = body])
       IN  req' = [req EXCEPT ![r] =
                     [rq EXCEPT !.setAtArrival = IF rq.provider \in Accounts
                                                 THEN lastSet[rq.provider] ELSE None]]
    /\ UNCHANGED <<orch, mk, server, hasBiometricBin, plainStore, bioStore, storeOps, lastSet>>

\* a request arrives
Arrive(r) ==
    \E ip \in ClientIPs, method \in Methods, url \in Urls,
       headers \in ClientHeaderSets, body \in Bodies :
       Request(r, ip, method, url, headers, body)

\* the mutant of Data for C37: `chunks` is one array of the module, so a
\* chunk of one request is pushed where every handler collects its body
DataSharedChunks(r) ==
    /\ req[r].pc = "body"
    /\ req[r].pending # <<>>
    /\ req' = [q \in DOMAIN req |->
                 IF q = r
                 THEN [req[q] EXCEPT !.chunks = Append(@, Head(req[r].pending)),
                                     !.pending = Tail(@)]
                 ELSE [req[q] EXCEPT !.chunks = Append(@, Head(req[r].pending))]]
    /\ UNCHANGED <<orch, mk, server, hasBiometricBin, plainStore, bioStore, storeOps, lastSet>>

\* lines 217-219: a 'data' event; `chunks` is a const of this call of
\* proxyRequest
Data(r) ==
    /\ req[r].pc = "body"
    /\ req[r].pending # <<>>
    /\ req' = [req EXCEPT ![r].chunks = Append(@, Head(req[r].pending)),
                          ![r].pending = Tail(@)]
    /\ UNCHANGED <<orch, mk, server, hasBiometricBin, plainStore, bioStore, storeOps, lastSet>>

\* the mutant of EndOfBody for C2: the handler runs on the first event
EndOfBodyEarly(rq) == TRUE

\* the 'end' event is emitted once every chunk has been delivered
EndOfBody(rq) == rq.pending = <<>>

\* lines 220-236: the 'end' handler up to `await readKeyFromKeychain`
End(r) ==
    /\ req[r].pc = "body"
    /\ EndOfBody(req[r])
    /\ LET body == Concat(req[r].chunks)
       IN  req' = [req EXCEPT ![r] =
                     StartRead([req[r] EXCEPT !.model = extractModel(body),
                                              !.body = Sanitize(req[r].provider, body)])]
    /\ UNCHANGED <<orch, mk, server, hasBiometricBin, plainStore, bioStore, storeOps, lastSet>>

\* lines 186-194: the helper process exits
BioExit(r) ==
    /\ req[r].pc = "bio"
    /\ \E out \in ExecOutcomes(bioStore, req[r].provider, <<>>) :
          LET result == BioStep(out)
              rq == [req[r] EXCEPT !.bioOut = IF out.ok THEN "ok" ELSE "fail",
                                   !.bioHeld = Held(bioStore, req[r].provider)]
          IN  req' = [req EXCEPT ![r] =
                        IF result.ok THEN AfterRead(rq, result)
                        ELSE [rq EXCEPT !.pc = "plain"]]
    /\ UNCHANGED <<orch, mk, server, hasBiometricBin, plainStore, bioStore, storeOps, lastSet>>

\* lines 197-200: the `security` process exits
PlainExit(r) ==
    /\ req[r].pc = "plain"
    /\ \E out \in ExecOutcomes(plainStore, req[r].provider, <<"\n">>) :
          LET rq == [req[r] EXCEPT !.plainOut = IF out.ok THEN "ok" ELSE "fail",
                                   !.plainHeld = Held(plainStore, req[r].provider)]
          IN  req' = [req EXCEPT ![r] = AfterRead(rq, PlainStep(rq.provider, out))]
    /\ UNCHANGED <<orch, mk, server, hasBiometricBin, plainStore, bioStore, storeOps, lastSet>>

\* lines 262-279: fetch resolves with the upstream's status and headers
FetchResolve(r) ==
    /\ req[r].pc = "fetch"
    /\ \E status \in UpstreamStatuses, headers \in UpstreamHeaderSets,
          body \in UpstreamBodies :
          LET rq == req[r]
              line == logRequest(rq.ip, rq.method, rq.provider, rq.upstreamPath,
                                 rq.model, status)
          IN  req' = [req EXCEPT ![r] =
                        [rq EXCEPT !.res = [status |-> status,
                                            headers |-> FwdHeaders(HeadersEntries(headers)),
                                            body |-> <<>>,
                                            ended |-> body = <<>>],
                                   !.upHeaders = headers,
                                   !.upOpen = body # <<>>,
                                   !.upPending = body,
                                   !.log = Append(@, line),
                                   !.pc = IF body = <<>> THEN "done" ELSE "stream"]]
    /\ UNCHANGED <<orch, mk, server, hasBiometricBin, plainStore, bioStore, storeOps, lastSet>>

\* lines 262, 280-286: fetch rejects (connect or TLS failure, timeout)
FetchReject(r) ==
    /\ req[r].pc = "fetch"
    /\ req' = [req EXCEPT ![r] =
                 ProxyCatch([req[r] EXCEPT !.fetchErr = TRUE], <<"fetch failed">>)]
    /\ UNCHANGED <<orch, mk, server, hasBiometricBin, plainStore, bioStore, storeOps, lastSet>>

\* line 275: the pipe hands one upstream chunk to the client
StreamData(r) ==
    /\ req[r].pc = "stream"
    /\ req[r].upPending # <<>>
    /\ req' = [req EXCEPT ![r] = PipeData(req[r])]
    /\ UNCHANGED <<orch, mk, server, hasBiometricBin, plainStore, bioStore, storeOps, lastSet>>

\* line 275: the upstream body ends and the pipe ends the response
StreamEnd(r) ==
    /\ req[r].pc = "stream"
    /\ req[r].upPending = <<>>
    /\ req' = [req EXCEPT ![r].res.ended = TRUE, ![r].upOpen = FALSE, ![r].pc = "done"]
    /\ UNCHANGED <<orch, mk, server, hasBiometricBin, plainStore, bioStore, storeOps, lastSet>>

\* line 262: the upstream answers 3xx with a Location and fetch follows it
FetchRedirect(r) ==
    /\ req[r].pc = "fetch"
    /\ Len(req[r].followed) < MaxRedirects
    /\ req' = [req EXCEPT ![r].followed =
                 Append(@, FollowRedirect(LastRequest(req[r]), RedirectLocation))]
    /\ UNCHANGED <<orch, mk, server, hasBiometricBin, plainStore, bioStore, storeOps, lastSet>>

\* the process ends: every handler's context goes with it
Exit(how) ==
    /\ server' = how
    /\ req' = [q \in DOMAIN req |-> Idle]
    /\ UNCHANGED <<orch, mk, hasBiometricBin, plainStore, bioStore, storeOps, lastSet>>

\* line 275: the upstream connection fails while the body is piped.  The
\* source stream emits 'error'; pipe() listens for errors of the destination
\* only and the call is outside any await, so the error is an uncaught
\* exception and the process exits.
StreamError(r) ==
    /\ req[r].pc = "stream"
    /\ Exit("crashed")

\* line 275: the client goes away while the body is piped.  The response
\* emits 'close' and pipe() unpipes; the source is left paused and open.
ClientDisconnect(r) ==
    /\ req[r].pc = "stream"
    /\ req' = [req EXCEPT ![r].clientGone = TRUE, ![r].pc = "unpiped"]
    /\ UNCHANGED <<orch, mk, server, hasBiometricBin, plainStore, bioStore, storeOps, lastSet>>

\* src/src/cli.ts, `agentauth start`: no handler is installed for SIGTERM or
\* SIGINT, so the signal ends the process at once
Terminate ==
    /\ server = "listening"
    /\ Exit("killed")

\* the response is complete and the handler's context is dropped
Close(r) ==
    /\ req[r].pc = "done"
    /\ req' = [req EXCEPT ![r] = Idle]
    /\ UNCHANGED <<orch, mk, server, hasBiometricBin, plainStore, bioStore, storeOps, lastSet>>

\* src/src/cli.ts: thesystem keys set <provider> <key>
KeysSet(account, key) ==
    /\ storeOps < MaxStoreOps
    /\ plainStore[account] # key
    /\ plainStore' = [plainStore EXCEPT ![account] = key]
    /\ storeOps' = storeOps + 1
    /\ lastSet' = [lastSet EXCEPT ![account] = key]
    /\ UNCHANGED <<orch, mk, server, hasBiometricBin, bioStore, req>>

\* src/swift/thesystem-keychain.swift: set <service> <account> <value>
BiometricSet(account, value) ==
    /\ storeOps < MaxStoreOps
    /\ bioStore[account] # value
    /\ bioStore' = [bioStore EXCEPT ![account] = value]
    /\ storeOps' = storeOps + 1
    /\ UNCHANGED <<orch, mk, server, hasBiometricBin, plainStore, lastSet, req>>

\* src/swift/thesystem-keychain.swift: delete <service> <account>
BiometricDelete(account) ==
    /\ storeOps < MaxStoreOps
    /\ bioStore[account] # None
    /\ bioStore' = [bioStore EXCEPT ![account] = None]
    /\ storeOps' = storeOps + 1
    /\ UNCHANGED <<orch, mk, server, hasBiometricBin, plainStore, lastSet, req>>

Next ==
    \/ \E r \in Reqs : Arrive(r)
    \/ \E r \in Reqs : Data(r)
    \/ \E r \in Reqs : End(r)
    \/ \E r \in Reqs : BioExit(r)
    \/ \E r \in Reqs : PlainExit(r)
    \/ \E r \in Reqs : FetchResolve(r)
    \/ \E r \in Reqs : FetchReject(r)
    \/ \E r \in Reqs : FetchRedirect(r)
    \/ \E r \in Reqs : StreamError(r)
    \/ \E r \in Reqs : ClientDisconnect(r)
    \/ Terminate
    \/ \E r \in Reqs : StreamData(r)
    \/ \E r \in Reqs : StreamEnd(r)
    \/ \E r \in Reqs : Close(r)
    \/ \E a \in Accounts, k \in PlainValues : KeysSet(a, k)
    \/ \E a \in Accounts, v \in BioValues : BiometricSet(a, v)
    \/ \E a \in Accounts : BiometricDelete(a)

Spec == Init /\ [][Next]_vars

\* Requests with bodies: local clients of two providers send every kind of
\* body with every method, to a proxy without the helper binary.
BodyInit ==
    /\ server = "listening"
    /\ hasBiometricBin = FALSE
    /\ plainStore = [a \in Accounts |-> IF a \in {"anthropic", "openai"} THEN K1 ELSE None]
    /\ bioStore = [a \in Accounts |-> None]
    /\ storeOps = 0
    /\ lastSet = [a \in Accounts |-> None]
    /\ req = [r \in Reqs |-> Idle]
    /\ orch = OrchIdle("absent")
    /\ mk = MkIdle

\* what such a client says about the API version: nothing, a version, a beta
\* flag, or both
VersionHeaderSets == {
    ("host" :> <<"proxy:9999">>),
    ("host" :> <<"proxy:9999">>) @@ ("anthropic-version" :> <<"2024-01-01">>),
    ("host" :> <<"proxy:9999">>) @@ ("anthropic-beta" :> <<"tools-1">>),
    ("host" :> <<"proxy:9999">>) @@ ("anthropic-version" :> <<"2024-01-01">>)
        @@ ("anthropic-beta" :> <<"tools-1">>) }

ArriveBody(r) ==
    \E method \in BodyMethods, url \in BodyUrls, headers \in VersionHeaderSets,
       body \in JsonBodies :
       Request(r, V4(127, 0, 0, 1), method, url, headers, body)

BodyNext ==
    \/ \E r \in Reqs : ArriveBody(r)
    \/ \E r \in Reqs : Data(r)
    \/ \E r \in Reqs : End(r)
    \/ \E r \in Reqs : PlainExit(r)
    \/ \E r \in Reqs : FetchResolve(r)
    \/ \E r \in Reqs : FetchReject(r)
    \/ \E r \in Reqs : StreamData(r)
    \/ \E r \in Reqs : StreamEnd(r)
    \/ \E r \in Reqs : Close(r)

BodySpec == BodyInit /\ [][BodyNext]_vars

\* Keystore reads: the helper is installed or not, and each store holds for
\* anthropic nothing, a key, a blank value, or a key with white space around.
Blank == <<" ">>
ReadBioValues == {None, K1, Blank, <<" ", "sk-2", "\n">>}
ReadPlainValues == {None, K2, Blank}

ReadInit ==
    /\ server = "listening"
    /\ hasBiometricBin \in BOOLEAN
    /\ plainStore \in {[a \in Accounts |-> IF a = "anthropic" THEN v ELSE None] :
                          v \in ReadPlainValues}
    /\ bioStore \in {[a \in Accounts |-> IF a = "anthropic" THEN v ELSE None] :
                        v \in ReadBioValues}
    /\ storeOps = 0
    /\ lastSet = [a \in Accounts |-> None]
    /\ req = [r \in Reqs |-> Idle]
    /\ orch = OrchIdle("absent")
    /\ mk = MkIdle

ArriveRead(r) ==
    Request(r, V4(127, 0, 0, 1), "POST", <<"/", "anthropic", "/", "v1/messages">>,
            ("host" :> <<"proxy:9999">>), <<>>)

ReadNext ==
    \/ \E r \in Reqs : ArriveRead(r)
    \/ \E r \in Reqs : End(r)
    \/ \E r \in Reqs : BioExit(r)
    \/ \E r \in Reqs : PlainExit(r)
    \/ \E r \in Reqs : FetchResolve(r)
    \/ \E r \in Reqs : FetchReject(r)
    \/ \E r \in Reqs : StreamData(r)
    \/ \E r \in Reqs : StreamEnd(r)
    \/ \E r \in Reqs : Close(r)

ReadSpec == ReadInit /\ [][ReadNext]_vars

\* Two clients at once: the server takes a second request while the first one
\* waits for the keystore or for the upstream (every callback of lines 218-287
\* is a separate turn of the event loop). c1 posts to anthropic and c2 to
\* openai, each its own body in two chunks; the two providers have two keys.
Clients == {"c1", "c2"}

ClientCall ==
    ("c1" :> [provider |-> "anthropic", key |-> K1,
              url  |-> <<"/", "anthropic", "/", "v1/messages">>,
              body |-> << <<"{", "model:m1">>, <<"}">> >>])
    @@ ("c2" :> [provider |-> "openai", key |-> K2,
                 url  |-> <<"/", "openai", "/", "v1/chat/completions">>,
                 body |-> << <<"{", "messages:[]">>, <<"}">> >>])

ConcInit ==
    /\ server = "listening"
    /\ hasBiometricBin = FALSE
    /\ plainStore = [a \in Accounts |-> IF a \in {"anthropic", "openai"}
                                        THEN ClientCall[IF a = "anthropic" THEN "c1" ELSE "c2"].key
                                        ELSE None]
    /\ bioStore = [a \in Accounts |-> None]
    /\ storeOps = 0
    /\ lastSet = [a \in Accounts |-> None]
    /\ req = [r \in Clients |-> Idle]
    /\ orch = OrchIdle("absent")
    /\ mk = MkIdle

ArriveConc(r) ==
    Request(r, V4(127, 0, 0, 1), "POST", ClientCall[r].url,
            ("host" :> <<"proxy:9999">>), ClientCall[r].body)

ConcNext ==
    \/ \E r \in Clients : ArriveConc(r)
    \/ \E r \in Clients : Data(r)
    \/ \E r \in Clients : End(r)
    \/ \E r \in Clients : PlainExit(r)
    \/ \E r \in Clients : FetchResolve(r)
    \/ \E r \in Clients : FetchReject(r)
    \/ \E r \in Clients : StreamData(r)
    \/ \E r \in Clients : StreamEnd(r)
    \/ \E r \in Clients : StreamError(r)
    \/ \E r \in Clients : Close(r)

ConcSpec == ConcInit /\ [][ConcNext]_vars

\* ------------------------------------------------------------------------
\* Orchestrator actions: `thesystem start`
\* ------------------------------------------------------------------------

proxyVars == <<server, hasBiometricBin, plainStore, bioStore, storeOps, lastSet, req>>

\* The orchestrator runs next to a proxy that is up or is not; the VM is in
\* any of its states.
OrchInit ==
    /\ server \in {"listening", "killed"}
    /\ hasBiometricBin = FALSE
    /\ plainStore = [a \in Accounts |-> None]
    /\ bioStore = [a \in Accounts |-> None]
    /\ storeOps = 0
    /\ lastSet = [a \in Accounts |-> None]
    /\ req = [r \in Reqs |-> Idle]
    /\ orch \in {OrchIdle(vm) : vm \in {"absent", "stopped", "running"}}
    /\ mk = MkIdle

\* lines 144-165, start(config): a new `thesystem start` process looks at the VM
OrchStart ==
    /\ orch.pc = "idle"
    /\ \E env \in HostEnvs, config \in Configs,
          running \in isVmRunning(orch.vm), created \in isVmCreated(orch.vm) :
          orch' = [OrchIdle(orch.vm) EXCEPT
                     !.env = env, !.config = config, !.run = "start",
                     !.observed = IF running THEN "running"
                                  ELSE IF created THEN "stopped" ELSE "absent",
                     !.vmStep = IF running THEN "ok" ELSE "-",
                     !.pc = VmAction(running, created)]
    /\ UNCHANGED <<proxyVars, mk>>

\* lines 164-169: the template is read and limactl create is issued; it
\* succeeds only when there is no such VM yet; a missing template throws
\* before anything is issued
VmCreate ==
    /\ orch.pc = "vmcreate"
    /\ \/ /\ orch.vm = "absent"
          /\ orch' = [orch EXCEPT !.vm = "stopped", !.vmOps = Append(@, "create"),
                                   !.pc = "vmstart"]
       \/ orch' = [orch EXCEPT !.vmOps = Append(@, "create"), !.vmStep = "failed",
                                !.pc = "failed"]
       \/ orch' = [orch EXCEPT !.vmStep = "failed", !.pc = "failed"]
    /\ UNCHANGED <<proxyVars, mk>>

\* lines 159, 170: limactl start is issued; it succeeds or throws
VmStart ==
    /\ orch.pc = "vmstart"
    /\ \/ /\ orch.vm # "absent"
          /\ orch' = [orch EXCEPT !.vm = "running", !.vmOps = Append(@, "start"),
                                   !.vmStep = "ok", !.pc = "install"]
       \/ orch' = [orch EXCEPT !.vmOps = Append(@, "start"), !.vmStep = "failed",
                                !.pc = "failed"]
    /\ UNCHANGED <<proxyVars, mk>>

\* lines 193-269, installIfNeeded: the components are there, or are installed
\* now, or an install step throws
InstallIfNeeded ==
    /\ orch.pc = "install"
    /\ LET probed == Shell(Shell(orch, "ensure npm path"), "which agentchat")
       IN  \/ orch' = [probed EXCEPT !.pc = "cleanup"]
           \/ orch' = [Shell(probed, "npm install -g ...") EXCEPT !.pc = "cleanup"]
           \/ orch' = [Shell(probed, "npm install -g ...") EXCEPT !.pc = "failed"]
    /\ UNCHANGED <<proxyVars, mk>>

\* line 277: leftovers of earlier runs are killed
KillLeftovers ==
    /\ orch.pc = "cleanup"
    /\ \/ orch' = [Shell(orch, "pkill leftovers") EXCEPT
                      !.pc = IF orch.config.mode = "server" THEN "server" ELSE "gate"]
       \/ orch' = [orch EXCEPT !.pc = "failed"]
    /\ UNCHANGED <<proxyVars, mk>>

\* lines 279-284: daemonize(agentchat serve)
StartServer ==
    /\ orch.pc = "server"
    /\ \/ orch' = [Shell(orch, "agentchat serve") EXCEPT !.pc = "waitserver"]
       \/ orch' = [orch EXCEPT !.pc = "failed"]
    /\ UNCHANGED <<proxyVars, mk>>

\* lines 285, 334-346: waitForPort returns when the port answers, and also,
\* with a warning, when it has not answered in time
WaitServerPort ==
    /\ orch.pc = "waitserver"
    /\ \E answer \in {"ready", "timeout"} :
          orch' = [orch EXCEPT !.serverPort = answer, !.pc = "dashboard"]
    /\ UNCHANGED <<proxyVars, mk>>

\* lines 287-291: daemonize(dashboard)
StartDashboard ==
    /\ orch.pc = "dashboard"
    /\ \/ orch' = [Shell(orch, "dashboard server") EXCEPT !.pc = "waitdashboard"]
       \/ orch' = [orch EXCEPT !.pc = "failed"]
    /\ UNCHANGED <<proxyVars, mk>>

\* line 292
WaitDashboardPort ==
    /\ orch.pc = "waitdashboard"
    /\ \E answer \in {"ready", "timeout"} :
          orch' = [orch EXCEPT !.dashPort = answer, !.pc = "gate"]
    /\ UNCHANGED <<proxyVars, mk>>

\* what `curl -sf http://localhost:<port>/agentauth/health` may answer within
\* its 3 s: success needs a proxy that listens
CurlHealth == IF server = "listening" THEN {"ok", "fail"} ELSE {"fail"}

\* the mutant of proxyOk for C23: the swarm starts whatever curl said
proxyOkAlways(answer) == TRUE

\* lines 301-307: proxyOk is set only when curl exits zero
proxyOk(answer) == answer = "ok"

\* lines 296-315: the guard before the swarm
HealthGate ==
    /\ orch.pc = "gate"
    /\ IF orch.config.agents > 0
       THEN \E answer \in CurlHealth :
               orch' = [orch EXCEPT !.health = answer,
                                    !.pc = IF proxyOk(answer) THEN "swarm" ELSE "done"]
       ELSE orch' = [orch EXCEPT !.pc = "done"]
    /\ UNCHANGED <<proxyVars, mk>>

\* lines 317-321: daemonize(agentctl start)
StartSwarm ==
    /\ orch.pc = "swarm"
    /\ \/ orch' = [Shell(orch, "agentctl start") EXCEPT !.pc = "done"]
       \/ orch' = [orch EXCEPT !.pc = "failed"]
    /\ UNCHANGED <<proxyVars, mk>>

\* lines 348-353, stop(): called by `thesystem stop`, or by the signal handler
\* of a `thesystem start` that is up (src/src/cli.ts lines 88-105, 131-135);
\* it returns at once when it sees no running VM
OrchStop ==
    /\ orch.pc \in {"idle", "done"}
    /\ \E env \in HostEnvs, running \in isVmRunning(orch.vm) :
          LET o == IF orch.pc = "idle"
                   THEN [OrchIdle(orch.vm) EXCEPT !.env = env, !.run = "stop"]
                   ELSE orch
          IN  orch' = [o EXCEPT !.pc = IF running THEN "stopping" ELSE "stopped"]
    /\ UNCHANGED <<proxyVars, mk>>

\* lines 361-368: the next kill of stopPatterns; a shell that throws is
\* caught and the loop goes on
StopService ==
    /\ orch.pc = "stopping"
    /\ Len(orch.stops) < Len(stopPatterns)
    /\ LET name == stopPatterns[Len(orch.stops) + 1]
       IN  \/ orch' = [Shell(orch, "pkill") EXCEPT
                         !.stops = Append(@, [name |-> name, ok |-> TRUE])]
           \/ orch' = [orch EXCEPT !.stops = Append(@, [name |-> name, ok |-> FALSE])]
    /\ UNCHANGED <<proxyVars, mk>>

\* lines 370-372: limactl stop is issued after the loop; it succeeds or throws
VmStop ==
    /\ orch.pc = "stopping"
    /\ Len(orch.stops) = Len(stopPatterns)
    /\ \/ orch' = [orch EXCEPT !.vm = "stopped", !.vmOps = Append(@, "stop"),
                                !.pc = "stopped"]
       \/ orch' = [orch EXCEPT !.vmOps = Append(@, "stop"), !.pc = "failed"]
    /\ UNCHANGED <<proxyVars, mk>>

\* src/src/cli.ts: the process exits (start failed, stop is over, or the
\* process that was up is killed); the VM stays as it is
OrchExit ==
    /\ orch.pc \in {"done", "failed", "stopped"}
    /\ orch' = OrchIdle(orch.vm)
    /\ UNCHANGED <<proxyVars, mk>>

OrchNext ==
    \/ OrchStart
    \/ VmCreate
    \/ VmStart
    \/ InstallIfNeeded
    \/ KillLeftovers
    \/ StartServer
    \/ WaitServerPort
    \/ StartDashboard
    \/ WaitDashboardPort
    \/ HealthGate
    \/ StartSwarm
    \/ OrchStop
    \/ StopService
    \/ VmStop
    \/ OrchExit

OrchSpec == OrchInit /\ [][OrchNext]_vars

\* ------------------------------------------------------------------------
\* Marker pipeline actions
\* ------------------------------------------------------------------------

MaxPieces == 3
MaxHandlers == 2

LF == "\n"

\* Pieces of model output: lone characters, delimiters, and markers that are
\* unterminated, simple, closing, function calls, key-value and malformed
StripPieces ==
    { <<"@">>, <<"@", "@">>, <<"a">>, <<" ">>, <<LF>>,
      <<"@", "@", "a">>,
      <<"@", "@", "a", "@", "@">>,
      <<"@", "@", "/", "a", "@", "@">>,
      <<"@", "@", "a", "(", "b", "=", "1", ")", "@", "@">>,
      <<"@", "@", "a", ":", "1", "@", "@">>,
      <<"@", "@", "a", " ", "b", "@", "@">> }

\* the pieces of the texts given to process()
ProcessPieces ==
    { <<"a">>, <<"@", "@">>,
      <<"@", "@", "a", "@", "@">>,
      <<"@", "@", "a", ":", "1", "@", "@">>,
      <<"@", "@", "a", " ", "b", "@", "@">> }

\* every text made of at most n pieces
RECURSIVE TextsOf(_, _)
TextsOf(pieces, n) ==
    IF n = 0 THEN {<<>>}
    ELSE LET shorter == TextsOf(pieces, n - 1)
         IN  shorter \cup {t \o piece : t \in shorter, piece \in pieces}

\* the number of handlers a router holds
RECURSIVE CountNamed(_, _)
CountNamed(router, names) ==
    IF names = {} THEN 0
    ELSE LET n == CHOOSE x \in names : TRUE
         IN  Len(router.handlers[n]) + CountNamed(router, names \ {n})

HandlerCount(router) == Len(router.wildcardHandlers) + CountNamed(router, HandlerNames)

otherVars == <<proxyVars, orch>>

\* A program that uses the marker pipeline: a new router, nothing in work
MarkerInit ==
    /\ server = "listening"
    /\ hasBiometricBin = FALSE
    /\ plainStore = [a \in Accounts |-> None]
    /\ bioStore = [a \in Accounts |-> None]
    /\ storeOps = 0
    /\ lastSet = [a \in Accounts |-> None]
    /\ req = [r \in Reqs |-> Idle]
    /\ orch = OrchIdle("absent")
    /\ mk = MkIdle

\* lines 217-228: a caller strips a text
Strip ==
    /\ mk.pc = "idle"
    /\ \E text \in TextsOf(StripPieces, MaxPieces) :
          mk' = [mk EXCEPT !.pc = "stripped", !.text = text, !.out = strip(text)]
    /\ UNCHANGED otherVars

\* lines 169-199: a caller parses a text
Parse ==
    /\ mk.pc = "idle"
    /\ \E text \in TextsOf(StripPieces, MaxPieces) :
          mk' = [mk EXCEPT !.pc = "parsed", !.text = text, !.segments = parse(text)]
    /\ UNCHANGED otherVars

\* lines 259-268: router.on(name, handler)
On ==
    /\ mk.pc = "idle"
    /\ HandlerCount(mk.router) < MaxHandlers
    /\ \E name \in HandlerNames \cup {Wildcard}, handler \in Handlers :
          mk' = [mk EXCEPT !.router = on(@, name, handler), !.lastOff = <<>>]
    /\ UNCHANGED otherVars

\* lines 273-281: router.off(name) and router.off()
Off ==
    /\ mk.pc = "idle"
    /\ \E name \in HandlerNames \cup {Wildcard, None} :
          mk' = [mk EXCEPT !.router = off(@, name), !.lastOff = <<name>>]
    /\ UNCHANGED otherVars

\* lines 329-331: process(text) parses and picks the markers
Process ==
    /\ mk.pc = "idle"
    /\ \E text \in TextsOf(ProcessPieces, MaxPieces) :
          mk' = [mk EXCEPT !.pc = "routing", !.text = text,
                           !.segments = parse(text),
                           !.markers = Routable(parse(text)),
                           !.lastOff = <<>>]
    /\ UNCHANGED otherVars

\* lines 334-335, 289-293: the loop of process() calls route() for the next
\* marker
Route ==
    /\ mk.pc = "routing"
    /\ Len(mk.routed) < Len(mk.markers)
    /\ mk' = RouteLoop([mk EXCEPT !.pc = "route",
                                  !.routed = Append(@, mk.markers[Len(mk.routed) + 1]),
                                  !.h = 1, !.handled = FALSE])
    /\ UNCHANGED otherVars

\* lines 299-306, 311-318: route() awaits the next handler, which returns or
\* throws
Invoke ==
    /\ mk.pc = "route"
    /\ LET call == Applicable(mk.router, mk.routed[Len(mk.routed)])[mk.h]
           called == [mk EXCEPT !.calls = Append(@,
                         [marker |-> Len(mk.routed), list |-> call.list,
                          handler |-> call.handler])]
       IN  mk' = IF call.handler = "throws" THEN CatchHandlerError(called)
                 ELSE NextHandler(called)
    /\ UNCHANGED otherVars

\* lines 338-339: process() returns the clean text
Return ==
    /\ mk.pc = "routing"
    /\ Len(mk.routed) = Len(mk.markers)
    /\ mk' = [mk EXCEPT !.pc = "returned", !.out = strip(textOnly(mk.segments))]
    /\ UNCHANGED otherVars

\* the caller has its result, or the rejection, and goes on with the router
Resume ==
    /\ mk.pc \in {"stripped", "parsed", "returned", "rejected"}
    /\ mk' = MkRouter(mk.router)
    /\ UNCHANGED otherVars

StripNext ==
    \/ Strip
    \/ Parse
    \/ Resume

StripSpec == MarkerInit /\ [][StripNext]_vars

RouterNext ==
    \/ On
    \/ Off
    \/ Process
    \/ Route
    \/ Invoke
    \/ Return
    \/ Resume

RouterSpec == MarkerInit /\ [][RouterNext]_vars

\* The event loop runs every handler step whose event has arrived, and fetch
\* settles every request (it resolves, or rejects at its connect and header
\* timeouts at the latest).  The keystore processes are started by execFile
\* without a `timeout` option: nothing makes them exit, so their exit is not
\* a fair step.
Fairness ==
    \A r \in Reqs :
        /\ WF_vars(Data(r))
        /\ WF_vars(End(r))
        /\ WF_vars(FetchResolve(r) \/ FetchReject(r))
        /\ WF_vars(StreamData(r))
        /\ WF_vars(StreamEnd(r) \/ StreamError(r))

FairSpec == Spec /\ Fairness

\* ------------------------------------------------------------------------
\* Reference notions used by the properties
\* ------------------------------------------------------------------------

\* The 128-bit value of an address written with colons; an IPv4-mapped
\* address carries its four octets in the last two groups.
Groups6(ip) ==
    IF ip.form = "mapped"
    THEN <<0, 0, 0, 0, 0, 65535, ip.o[1] * 256 + ip.o[2], ip.o[3] * 256 + ip.o[4]>>
    ELSE ip.g

SamePrefix(x, y, prefix) == \A i \in 1..prefix : x[i] = y[i]

\* CIDR membership: the address, or the IPv4 address it maps, has the
\* entry's first `prefix` bits
InCidr(ip, cidr) ==
    IF cidr.ip.form = "v4"
    THEN /\ ip.form \in {"v4", "mapped"}
         /\ SamePrefix(ConcatBits(ip.o, 8), ConcatBits(cidr.ip.o, 8), cidr.prefix)
    ELSE /\ ip.form \in {"v6", "mapped"}
         /\ SamePrefix(ConcatBits(Groups6(ip), 16), ConcatBits(Groups6(cidr.ip), 16),
                       cidr.prefix)

InAllowlist(ip) == \E i \in DOMAIN ALLOWED_CIDRS : InCidr(ip, ALLOWED_CIDRS[i])

HasLine(rq, level, piece) ==
    \E i \in DOMAIN rq.log : rq.log[i].level = level /\ Contains(rq.log[i].text, piece)

\* the stored item a finished read returned
StoredAtRead(rq) == IF rq.bioOut = "ok" THEN rq.bioHeld ELSE rq.plainHeld

\* no store the read looked in held an item for the account
NothingStored(rq) ==
    /\ rq.plainOut # "-"
    /\ rq.plainHeld = None
    /\ rq.bioHeld = None

AuthName(authStyle) ==
    IF authStyle = "bearer" THEN "Authorization"
    ELSE IF authStyle = "x-goog-api-key" THEN "x-goog-api-key" ELSE "x-api-key"

AuthValue(authStyle, key) == IF authStyle = "bearer" THEN <<"Bearer ">> \o key ELSE key

\* ------------------------------------------------------------------------
\* Properties
\* ------------------------------------------------------------------------

\* C1: every request from a source address that lies in none of the allowlist's
\* CIDR ranges is answered 403 'forbidden', logs a DENIED line, and causes
\* neither a keystore read nor an upstream request, whatever its route.
C1_OutsideAllowlistDenied ==
    \A r \in Reqs :
        (req[r].pc # "idle" /\ ~InAllowlist(req[r].ip)) =>
            /\ req[r].res.status = "403"
            /\ req[r].res.body = <<"forbidden">>
            /\ HasLine(req[r], "warn", <<"DENIED ">>)
            /\ req[r].reads = 0
            /\ req[r].up = <<>>

\* C2: in a proxied request the keystore read starts only when every chunk of
\* the body has been captured, and the upstream request is issued only when
\* the read has returned the key.
C2_BodyThenReadThenFetch ==
    \A r \in Reqs :
        req[r].route = "proxy" =>
            /\ req[r].reads > 0 => req[r].pending = <<>>
            /\ req[r].pc \in {"body", "bio", "plain"} => req[r].up = <<>>
            /\ req[r].up # <<>> => (req[r].reads > 0 /\ req[r].readDone)

\* C2 witness: a two-chunk body was captured, the key read, the request sent
C2_Witness ==
    \E r \in Reqs :
        /\ req[r].route = "proxy"
        /\ Len(req[r].chunks) = 2
        /\ req[r].readDone
        /\ req[r].pc = "fetch"

\* C3: a proxied request invokes the keystore read at most once, and exactly
\* once when an upstream request was made for it.
C3_OneKeystoreRead ==
    \A r \in Reqs :
        req[r].route = "proxy" =>
            /\ req[r].reads <= 1
            /\ req[r].up # <<>> => req[r].reads = 1
            /\ (req[r].pc = "done" /\ req[r].res.status = "502" /\ ~req[r].readDone)
                   => req[r].reads = 1

\* C3 witness: a proxied request whose keystore read failed has been answered
C3_Witness ==
    \E r \in Reqs :
        /\ req[r].route = "proxy"
        /\ req[r].pc = "done"
        /\ req[r].plainOut = "fail"
        /\ req[r].reads = 1

\* C4: no log line of a request contains the credential read from the store
\* during that request.
C4_NoCredentialInLog ==
    \A r \in Reqs :
        req[r].readDone =>
            \A i \in DOMAIN req[r].log : ~Contains(req[r].log[i].text, req[r].apiKey)

\* C5: outside the credential endpoint no response body contains a credential
\* (neither one held by a store nor the one the request read).
C5_OnlyCredentialEndpointReturnsSecret ==
    \A r \in Reqs :
        req[r].route # "cred" =>
            /\ \A k \in Secrets : ~Contains(req[r].res.body, k)
            /\ req[r].readDone => ~Contains(req[r].res.body, req[r].apiKey)

\* C5 witness: a proxied request that read a key was answered by the proxy itself
C5_Witness ==
    \E r \in Reqs :
        /\ req[r].route = "proxy"
        /\ req[r].readDone
        /\ req[r].up = <<>>
        /\ req[r].res.status = "502"

\* C6: the upstream header set holds the stored credential in the one header
\* of the provider's auth style and besides that only content-type and the
\* provider's passthrough and default headers; no host header and no value
\* of the client's host, authorization, x-api-key or x-goog-api-key header.
C6_UpstreamHeaders ==
    \A r \in Reqs :
        \A i \in DOMAIN req[r].up :
            LET h     == req[r].up[i].headers
                style == PROVIDERS[req[r].provider].authStyle
            IN  /\ AuthName(style) \in DOMAIN h
                /\ h[AuthName(style)] = AuthValue(style, StoredAtRead(req[r]))
                /\ (DOMAIN h) \ {AuthName(style)} \subseteq
                       {"content-type", "anthropic-version", "anthropic-beta"}
                /\ \A n \in {"host", "authorization", "x-api-key", "x-goog-api-key"}
                            \cap DOMAIN req[r].headers :
                       \A m \in DOMAIN h : h[m] # req[r].headers[n]

\* C6 witness: a client that sent its own credential headers got a request
\* through to a provider of the x-goog-api-key style
C6_Witness ==
    \E r \in Reqs :
        /\ req[r].up # <<>>
        /\ req[r].provider = "google"
        /\ "x-goog-api-key" \in DOMAIN req[r].headers

\* C7: a proxied request that arrives after `keys set <provider> <key>` (and
\* before any later `keys set` for that provider) reads and uses that key.
C7_NextRequestUsesNewValue ==
    \A r \in Reqs :
        (/\ req[r].route = "proxy"
         /\ req[r].readDone
         /\ req[r].setAtArrival # None
         /\ lastSet[req[r].provider] = req[r].setAtArrival)
            => req[r].apiKey = req[r].setAtArrival

\* C8: a proxied request whose provider has no stored credential is answered
\* 502 'bad gateway', logs an ERROR line naming /<provider><path>, and makes
\* no upstream request.
C8_MissingCredential502 ==
    \A r \in Reqs :
        (req[r].route = "proxy" /\ NothingStored(req[r])) =>
            /\ req[r].pc = "done"
            /\ req[r].res.status = "502"
            /\ req[r].res.body = <<"bad gateway">>
            /\ HasLine(req[r], "error",
                       <<"ERROR ">> \o IPText(req[r].ip) \o <<" ", req[r].method, " ">>
                       \o <<"/", req[r].provider>> \o req[r].upstreamPath)
            /\ req[r].up = <<>>

\* C8 witness: a request for google found neither store holding a key
C8_Witness ==
    \E r \in Reqs :
        /\ req[r].route = "proxy"
        /\ req[r].provider = "google"
        /\ NothingStored(req[r])
        /\ req[r].bioOut = "fail"

\* the token of a stored item never appears in the log of a credential request
CredLogClean(rq) ==
    \A k \in (Secrets \cup {rq.apiKey}) \ {None} :
        \A i \in DOMAIN rq.log : ~Contains(rq.log[i].text, k)

C10_UpstreamFailure502 ==
    \A r \in Reqs :
        req[r].fetchErr =>
            /\ req[r].pc = "done"
            /\ req[r].res = [status |-> "502", headers |-> TextPlain,
                             body |-> <<"bad gateway">>, ended |-> TRUE]
            /\ Len(req[r].log) = 1
            /\ req[r].log[1].level = "error"
            /\ Contains(req[r].log[1].text, <<"ERROR ">>)

\* C10 witness: fetch rejected after the upstream request had been issued
C10_Witness ==
    \E r \in Reqs :
        /\ req[r].fetchErr
        /\ req[r].up # <<>>

\* C11: when the upstream fails while the body is streamed, after the response
\* headers were sent, the status stays as sent, the client response is ended
\* and an ERROR line is logged for the request.
C11_MidStreamFailureHandled ==
    [][\A r \in Reqs :
          (req[r].pc = "stream" /\ server = "listening" /\ server' = "crashed") =>
              /\ req'[r].res.status = req[r].res.status
              /\ req'[r].res.ended
              /\ HasLine(req'[r], "error", <<"ERROR ">>)]_vars

\* C12: the request line of a proxied request is in the log only once the
\* response body stream has ended.
C12_LogAfterStreamEnd ==
    \A r \in Reqs :
        (req[r].route = "proxy" /\ HasLine(req[r], "log", <<" status=">>)) =>
            req[r].res.ended

\* C13: while an upstream body is streamed, the client has been sent every
\* chunk the upstream has delivered so far, the first one included, whether
\* or not the upstream has ended.
C13_ChunksForwardedAsTheyArrive ==
    \A r \in Reqs :
        req[r].upGot # <<>> =>
            /\ StartsWith(req[r].res.body, req[r].upGot[1])
            /\ req[r].res.body = Concat(req[r].upGot)

\* C13 witness: the client holds the first chunk while the upstream still has
\* chunks to send and the response is not ended
C13_Witness ==
    \E r \in Reqs :
        /\ req[r].pc = "stream"
        /\ req[r].upPending # <<>>
        /\ req[r].res.body # <<>>
        /\ ~req[r].res.ended

\* C14: once the client has disconnected during the upstream stream, the
\* upstream request is no longer open.
C14_DisconnectCancelsUpstream ==
    \A r \in Reqs : req[r].clientGone => ~req[r].upOpen

\* C15: unless the process has ended, every proxied request whose body has
\* been captured and whose keystore read has started eventually gets a
\* response status, also when the keystore never answers.
C15_LookupBounded ==
    \A r \in Reqs :
        (req[r].route = "proxy" /\ req[r].reads > 0)
            ~> (req[r].res.status # "" \/ server # "listening")

\* C16: a termination signal does not abort a request that is in flight when
\* it arrives: the handler is still there after the signal, to drain.
C16_InFlightDrainOnSignal ==
    [][(server = "listening" /\ server' = "killed") =>
          \A r \in Reqs :
              req[r].pc \notin {"idle", "done"} => req'[r].pc # "idle"]_vars

\* the two header names the proxy must not forward, in the letter cases an
\* upstream sends them
EncodingNames ==
    {"content-encoding", "Content-Encoding", "transfer-encoding", "Transfer-Encoding"}

C18_NoRedirectFollowed ==
    \A r \in Reqs : req[r].followed = <<>>

\* C19: a request from an IPv4-mapped address ::ffff:a.b.c.d is admitted
\* exactly when the allowlist admits a.b.c.d.
C19_MappedSameAsV4 ==
    \A r \in Reqs :
        (req[r].pc # "idle" /\ req[r].ip.form = "mapped") =>
            ((req[r].route # "denied") <=>
                 isAllowedIP(V4(req[r].ip.o[1], req[r].ip.o[2],
                                req[r].ip.o[3], req[r].ip.o[4])))

\* the first segment of a path: what lies between its leading slash and the
\* next one
FirstSegment(path) ==
    IF path = <<>> \/ Head(path) # "/" THEN <<>>
    ELSE LET rest == Tail(path)
             stop == IF \E i \in DOMAIN rest : rest[i] = "/"
                     THEN CHOOSE i \in DOMAIN rest :
                              rest[i] = "/" /\ \A j \in 1..(i - 1) : rest[j] # "/"
                     ELSE Len(rest) + 1
         IN  SubSeq(rest, 1, stop - 1)

OtherMembers(text, key) ==
    SelectSeq(text, LAMBDA t : t \in JsonMembers /\ MemberKey[t] # key)

\* C21: when an anthropic request's body parses as JSON and has a
\* context_management field, whatever its value, the body sent upstream has
\* no context_management key and has every other member of the inbound body.
C21_ContextManagementStripped ==
    \A r \in Reqs :
        LET inbound == Concat(req[r].chunks)
        IN  (/\ req[r].up # <<>>
             /\ req[r].up[1].hasBody
             /\ req[r].provider = "anthropic"
             /\ IsJsonObject(inbound)
             /\ HasKey(inbound, "context_management")) =>
                /\ ~HasKey(req[r].up[1].body, "context_management")
                /\ OtherMembers(req[r].up[1].body, "context_management")
                       = OtherMembers(inbound, "context_management")

\* no sanitizer applies: the provider is not anthropic, or the body is not
\* JSON, or it has no context_management field
NoSanitizerApplies(provider, inbound) ==
    \/ provider # "anthropic"
    \/ ~IsJsonObject(inbound)
    \/ ~HasKey(inbound, "context_management")

\* C30: the upstream request has the method of the incoming request; for GET
\* and HEAD it has no body; otherwise it has a body, which equals the inbound
\* body token for token whenever no sanitizer applies.
C30_MethodAndBodyMirrored ==
    \A r \in Reqs :
        req[r].up # <<>> =>
            LET out     == req[r].up[1]
                inbound == Concat(req[r].chunks)
            IN  /\ out.method = req[r].method
                /\ req[r].method \in {"GET", "HEAD"} => (~out.hasBody /\ out.body = <<>>)
                /\ req[r].method \notin {"GET", "HEAD"} =>
                       /\ out.hasBody
                       /\ NoSanitizerApplies(req[r].provider, inbound)
                              => out.body = inbound

\* C30 witness: a POST to anthropic whose JSON body has white space and no
\* context_management, and a HEAD with a body, reached the upstream
C30_Witness ==
    \E r \in Reqs :
        /\ req[r].up # <<>>
        /\ \/ /\ req[r].method = "POST"
              /\ req[r].provider = "anthropic"
              /\ Concat(req[r].chunks) = <<"{", " ", "model:m1", "}">>
           \/ /\ req[r].method = "HEAD"
              /\ req[r].chunks # <<>>

\* the keystore failed on an item it holds (locked, unreachable), as opposed
\* to holding nothing for the account
KeystoreFailed(rq) == rq.plainOut = "fail" /\ rq.plainHeld # None

\* C22: a request whose keystore read failed although the credential is
\* stored is answered 502 'bad gateway' and logs an ERROR line, on the proxied
\* routes and on the credential endpoint alike.
C22_KeystoreFailure502 ==
    \A r \in Reqs :
        (req[r].pc = "done" /\ KeystoreFailed(req[r])) =>
            /\ req[r].res.status = "502"
            /\ req[r].res.body = <<"bad gateway">>
            /\ HasLine(req[r], "error", <<"ERROR ">>)

\* C28: the listener admits a request exactly when its source address lies
\* in one of the six CIDR ranges (an address that does not parse lies in none).
C28_AdmittedIffInCidr ==
    \A r \in Reqs :
        req[r].pc # "idle" =>
            ((req[r].route # "denied") <=> InAllowlist(req[r].ip))

\* C29: a request whose response is complete has produced exactly one log
\* line: a DENIED line when the allowlist refused it, an ERROR line when it
\* failed with 500 or 502, and a line without either word otherwise.
C29_OneLogLinePerRequest ==
    \A r \in Reqs :
        req[r].res.ended =>
            /\ Len(req[r].log) = 1
            /\ Contains(req[r].log[1].text, <<"DENIED ">>) <=> (req[r].route = "denied")
            /\ Contains(req[r].log[1].text, <<"ERROR ">>)
                   <=> (req[r].res.status \in {"500", "502"} /\ req[r].upHeaders = <<>>)

\* C23: in a run of `thesystem start`, the swarm launch command has been
\* issued only if the health check of this run succeeded, and after a failed
\* check the run ends without it.
C23_SwarmOnlyAfterHealthyProxy ==
    /\ (\E i \in DOMAIN orch.scripts : orch.scripts[i].command = "agentctl start")
           => orch.health = "ok"
    /\ orch.pc = "swarm" => orch.health = "ok"
    /\ orch.health = "fail" =>
           orch.pc \in {"done", "idle", "stopping", "stopped", "failed"}

\* C23 witness: a run with agents configured whose check failed ended
\* without a swarm, next to a proxy that is not up
C23_Witness ==
    /\ orch.pc = "done"
    /\ orch.config.agents > 0
    /\ orch.health = "fail"
    /\ server = "killed"

\* C24: no script written into the VM exports a secret variable with anything
\* but the placeholder 'proxy-managed' (and then only ANTHROPIC_API_KEY and
\* OPENAI_API_KEY), and none exports the host's value of a secret variable.
C24_NoSecretInVmScript ==
    \A i \in DOMAIN orch.scripts :
        \A j \in DOMAIN orch.scripts[i].exports :
            LET e == orch.scripts[i].exports[j]
            IN  /\ e.name \in SECRET_ENV_VARS =>
                       /\ e.name \in {EnvAnthropicKey, EnvOpenaiKey}
                       /\ e.value = <<"proxy-managed">>
                /\ \A n \in SECRET_ENV_VARS :
                       GetEnv(orch.env, n) # None => e.value # GetEnv(orch.env, n)

\* C24 witness: a script was written by a host whose environment holds the
\* five secrets, and it exports another ANTHROPIC_ variable of the host
C24_Witness ==
    /\ orch.scripts # <<>>
    /\ \A n \in SECRET_ENV_VARS : GetEnv(orch.env, n) # None
    /\ \E j \in DOMAIN orch.scripts[1].exports :
           orch.scripts[1].exports[j] = [name |-> EnvAnthropicModel, value |-> <<"opus">>]

\* C25: whatever text strip() is given, its output holds no "@@".
C25_StripLeavesNoMarker == mk.pc = "stripped" => ~HasAtAt(mk.out)

\* C25 witness: strip was given a text in which "@@" is left after the three
\* passes that remove matched pairs of delimiters
C25_Witness ==
    /\ mk.pc = "stripped"
    /\ HasAtAt(ReplaceOrphans(ReplaceMarkers(ReplaceMarkers(mk.text, 1), 1), 1))

\* s is the beginning of t
IsPrefix(s, t) == Len(s) <= Len(t) /\ SubSeq(t, 1, Len(s)) = s

\* C26: process(text) calls route() for the markers parse(text) recognises, in
\* their order in the text and once each, and the text it returns holds no
\* "@@".
C26_ProcessRoutesOnceInOrder ==
    /\ mk.pc \in {"routing", "route", "returned"} =>
           IsPrefix(mk.routed, extractMarkers(mk.text))
    /\ mk.pc = "returned" =>
           /\ mk.routed = extractMarkers(mk.text)
           /\ ~HasAtAt(mk.out)

\* C26 witness: process returned after routing two markers of a text that also
\* holds delimiters that are no marker
C26_Witness ==
    /\ mk.pc = "returned"
    /\ Len(mk.routed) >= 2
    /\ HasAtAt(textOnly(mk.segments))

\* the calls route() owes the markers, by the registrations of the router
RECURSIVE CallsOwed(_, _, _)
CallsOwed(router, markers, i) ==
    IF i > Len(markers) THEN <<>>
    ELSE LET owed == Applicable(router, markers[i])
         IN  [j \in DOMAIN owed |->
                 [marker |-> i, list |-> owed[j].list, handler |-> owed[j].handler]]
             \o CallsOwed(router, markers, i + 1)

\* C27: route() never rejects; when process() has returned, every handler
\* registered for each marker has been called, those after a throwing one
\* included, and the result is the stripped text.
C27_ThrowingHandlerIsContained ==
    /\ mk.pc # "rejected"
    /\ mk.pc = "returned" =>
           /\ mk.calls = CallsOwed(mk.router, extractMarkers(mk.text), 1)
           /\ mk.out = strip(textOnly(parse(mk.text)))

\* C27 witness: process returned after a named handler threw and a wildcard
\* handler was called for the same marker after it
C27_Witness ==
    /\ mk.pc = "returned"
    /\ \E i \in 1..(Len(mk.calls) - 1) :
          /\ mk.calls[i].handler = "throws"
          /\ mk.calls[i].list = "named"
          /\ mk.calls[i + 1].marker = mk.calls[i].marker
          /\ mk.calls[i + 1].list = "wildcard"

\* C31: every upstream request of an anthropic request carries the client's
\* anthropic-version, or 2023-06-01 when the client sent none, and the client's
\* anthropic-beta exactly when the client sent one; the upstream requests of
\* every other provider carry neither header.
C31_VersionHeaders ==
    \A r \in Reqs :
        \A i \in DOMAIN req[r].up :
            LET h      == req[r].up[i].headers
                client == req[r].headers
            IN  IF req[r].provider = "anthropic"
                THEN /\ Hdr(h, "anthropic-version") =
                           IF "anthropic-version" \in DOMAIN client
                           THEN client["anthropic-version"] ELSE <<"2023-06-01">>
                     /\ "anthropic-beta" \in DOMAIN h <=> "anthropic-beta" \in DOMAIN client
                     /\ "anthropic-beta" \in DOMAIN client =>
                            h["anthropic-beta"] = client["anthropic-beta"]
                ELSE {"anthropic-version", "anthropic-beta"} \cap DOMAIN h = {}

\* C31 witness: an anthropic request whose client sent a version and a beta
\* flag reached the upstream
C31_Witness ==
    \E r \in Reqs :
        /\ req[r].up # <<>>
        /\ req[r].provider = "anthropic"
        /\ {"anthropic-version", "anthropic-beta"} \subseteq DOMAIN req[r].headers

\* the read of a request is over and threw
ReadThrew(rq) == rq.pc = "done" /\ rq.reads = 1 /\ ~rq.readDone

\* C32: the read asks the helper first, and only when the helper is
\* installed; a helper that exits zero with a non-blank value settles the read
\* with that value trimmed and the plain keystore is not asked; otherwise the
\* plain keystore is asked and its trimmed value is the result; the read
\* throws only when the plain keystore failed or printed a blank value, and
\* the proxied request is then answered the same whether or not the helper
\* was asked.
C32_TwoTierRead ==
    \A r \in Reqs :
        LET rq == req[r]
            bioAnswered == rq.bioOut = "ok" /\ Trim(rq.bioHeld) # <<>>
        IN  /\ rq.bioOut # "-" => hasBiometricBin
            /\ (rq.plainOut # "-" /\ hasBiometricBin) => rq.bioOut # "-"
            /\ bioAnswered =>
                   /\ rq.readDone
                   /\ rq.apiKey = Trim(rq.bioHeld)
                   /\ rq.plainOut = "-"
            /\ (rq.plainOut = "ok" /\ Trim(rq.plainHeld) # <<>>) =>
                   /\ rq.readDone
                   /\ rq.apiKey = Trim(rq.plainHeld)
            /\ rq.readDone => (bioAnswered \/ rq.plainOut = "ok")
            /\ ReadThrew(rq) =>
                   /\ rq.plainOut = "fail" \/ Trim(rq.plainHeld) = <<>>
                   /\ rq.route = "proxy" =>
                          (rq.res.status = "502" /\ rq.res.body = <<"bad gateway">>)

\* C32 witness: the helper exited zero with a blank value and the plain
\* keystore answered with the key
C32_Witness ==
    \E r \in Reqs :
        /\ req[r].bioOut = "ok"
        /\ req[r].bioHeld = Blank
        /\ req[r].readDone
        /\ req[r].apiKey = K2

\* the service a script of startServices boots, "" for any other script
Booted(command) ==
    IF command = "agentchat serve" THEN "agentchat-server"
    ELSE IF command = "dashboard server" THEN "agentdash"
    ELSE IF command = "agentctl start" THEN "agentctl-swarm"
    ELSE ""

\* the services booted by the scripts, in the order of the scripts
BootSequence(scripts) ==
    LET boots == SelectSeq(scripts, LAMBDA sc : Booted(sc.command) # "")
    IN  [i \in DOMAIN boots |-> Booted(boots[i].command)]

\* s holds its elements in the order they have in t
RECURSIVE InOrderOf(_, _)
InOrderOf(s, t) ==
    IF s = <<>> THEN TRUE
    ELSE IF t = <<>> THEN FALSE
    ELSE IF Head(s) = Head(t) THEN InOrderOf(Tail(s), Tail(t))
    ELSE InOrderOf(s, Tail(t))

Reverse(s) == [i \in DOMAIN s |-> s[Len(s) + 1 - i]]

BootOrder == <<"agentchat-server", "agentdash", "agentctl-swarm">>

C34_NextServiceAfterPortReady ==
    /\ (\E i \in DOMAIN orch.scripts : orch.scripts[i].command = "dashboard server")
           => orch.serverPort = "ready"
    /\ (\E i \in DOMAIN orch.scripts : orch.scripts[i].command = "agentctl start")
           => (orch.config.mode = "server" => orch.dashPort = "ready")

\* the limactl commands start() owes the VM state it observed
VmPlan(observed) ==
    IF observed = "running" THEN <<>>
    ELSE IF observed = "stopped" THEN <<"start">>
    ELSE <<"create", "start">>

\* C39: in a run of start(), the limactl commands issued are the beginning of
\* the plan for the VM state it observed (nothing for a running VM, start for
\* a stopped one, create then start for none), and scripts are written into
\* the VM only when the whole plan has been issued and has succeeded.
C39_VmActionFromObservedState ==
    (orch.run = "start" /\ orch.pc \notin {"stopping", "stopped"} /\ orch.stops = <<>>) =>
        /\ IsPrefix(orch.vmOps, VmPlan(orch.observed))
        /\ orch.scripts # <<>> =>
               /\ orch.vmOps = VmPlan(orch.observed)
               /\ orch.vmStep = "ok"
               /\ orch.vm = "running"

\* C39 witness: start() saw no VM, created and started it, and has written a
\* script into it
C39_Witness ==
    /\ orch.run = "start"
    /\ orch.observed = "absent"
    /\ orch.vmOps = <<"create", "start">>
    /\ orch.scripts # <<>>

\* the handlers a router holds for a name, "*" included
Registered(router, name) ==
    IF name = Wildcard THEN router.wildcardHandlers ELSE router.handlers[name]

\* C35: after off(name) the router holds no handler registered under that
\* name, "*" included, and the handlers of every other name are as before;
\* after off() without a name it holds no handler at all.
C35_OffRemovesHandlers ==
    [][mk'.lastOff # <<>> =>
          LET name == mk'.lastOff[1]
          IN  IF name = None
              THEN HandlerCount(mk'.router) = 0
              ELSE /\ Registered(mk'.router, name) = <<>>
                   /\ \A n \in (HandlerNames \cup {Wildcard}) \ {name} :
                          Registered(mk'.router, n) = Registered(mk.router, n)]_vars
\* the content of each text segment and the raw of each marker segment, in
\* order, joined
RECURSIVE Joined(_)
Joined(segments) ==
    IF segments = <<>> THEN <<>>
    ELSE (IF Head(segments).type = "text" THEN Head(segments).content
          ELSE Head(segments).raw) \o Joined(Tail(segments))

\* the "@@...@@" spans of a text, left to right, from index `from` on
RECURSIVE Spans(_, _)
Spans(text, from) ==
    LET match == MARKER_RE(text, from)
    IN  IF match.index = 0 THEN <<>>
        ELSE <<[raw |-> SubSeq(text, match.index, match.last),
                content |-> match.content]>> \o Spans(text, match.last + 1)

\* C38: the segments parse() returns, joined (content of a text segment, raw
\* of a marker segment), are the input; a "@@...@@" span of no marker format
\* is among them as a text segment, and a span of a marker format as a marker.
C38_ParseLossless ==
    mk.pc = "parsed" =>
        /\ Joined(mk.segments) = mk.text
        /\ LET spans == Spans(mk.text, 1)
           IN  \A k \in DOMAIN spans :
                  IF parseMarkerContent(spans[k].content, spans[k].raw).type = "null"
                  THEN \E i \in DOMAIN mk.segments :
                          mk.segments[i] = [type |-> "text", content |-> spans[k].raw]
                  ELSE \E i \in DOMAIN mk.segments :
                          /\ mk.segments[i].type # "text"
                          /\ mk.segments[i].raw = spans[k].raw

\* C38 witness: parse was given a text with plain text, a span of no marker
\* format and a marker
C38_Witness ==
    /\ mk.pc = "parsed"
    /\ \E i, j, k \in DOMAIN mk.segments :
          /\ mk.segments[i].type = "text" /\ HasAtAt(mk.segments[i].content)
          /\ mk.segments[j].type = "text" /\ ~HasAtAt(mk.segments[j].content)
          /\ mk.segments[k].type # "text"
\* C36: a 500 of the proxy's own (not a forwarded upstream status) is given
\* only to a request for which no keystore read was started; a request whose
\* keystore read threw, or whose upstream call failed after the read, is
\* answered with the body 'bad gateway', or with the no_credential JSON on the
\* credential route.
C36_No500AfterKeystoreRead ==
    \A r \in Reqs :
        LET rq == req[r]
        IN  /\ (rq.res.status = "500" /\ rq.upHeaders = <<>>) =>
                   /\ rq.reads = 0
                   /\ rq.apiKey = None
                   /\ rq.route = "error"
            /\ (ReadThrew(rq) \/ rq.fetchErr) =>
                   /\ rq.res.status # "500"
                   /\ rq.res.body = IF rq.route = "cred"
                                    THEN NoCredentialJson(rq.provider)
                                    ELSE <<"bad gateway">>

\* C36 witness: a request was answered 500 with the exception message while a
\* key was stored
C36_Witness ==
    \E r \in Reqs :
        /\ req[r].res.status = "500"
        /\ req[r].route = "error"
        /\ req[r].res.body = <<"Invalid URL">>
        /\ \E a \in Accounts : plainStore[a] # None
\* C37: with two requests handled at once, every upstream call of a request
\* goes to its own provider, with that provider's key in the provider's header
\* and no other key header, and with the body its own client sent; what the
\* client has been sent is the header set and the chunks, in order, that the
\* upstream sent in answer to that request.
C37_NoValueSharedBetweenHandlers ==
    \A r \in Clients :
        LET rq     == req[r]
            call   == ClientCall[r]
            config == PROVIDERS[call.provider]
        IN  /\ \A i \in DOMAIN rq.up :
                   /\ StartsWith(rq.up[i].url, config.upstream)
                   /\ rq.up[i].headers =
                          BuildHeaders(call.provider, config, call.key,
                                       ("host" :> <<"proxy:9999">>))
                   /\ rq.up[i].body = Concat(call.body)
            /\ rq.upHeaders # <<>> =>
                   /\ rq.res.status \in UpstreamStatuses
                   /\ rq.res.headers = FwdHeaders(HeadersEntries(rq.upHeaders))
                   /\ rq.res.body = Concat(rq.upGot)
                   /\ (rq.upGot \o rq.upPending) \in UpstreamBodies
            /\ rq.pc \in {"plain", "fetch", "stream", "done"} =>
                   /\ rq.provider = call.provider
                   /\ rq.body = Concat(call.body)

\* C37 witness: the upstream call of c2 is out while the answer to c1 is
\* being piped to its client
C37_Witness ==
    /\ req["c1"].pc = "stream"
    /\ req["c1"].upGot # <<>>
    /\ req["c2"].pc = "fetch"
    /\ req["c2"].up # <<>>
====
